---- MODULE Spec2Model ----
(***************************************************************************)
(* A model of the Lytt ingest pipeline (src/src/orchestrator.rs), its      *)
(* SQLite store (src/src/vector_store/sqlite.rs) and the fusion            *)
(* transcription engine (src/src/transcription/fusion.rs).                 *)
(*                                                                         *)
(* Spec           : Orchestrator::process_media / rechunk_media, one call  *)
(*                  at a time, over the store and the audio temp dir.      *)
(* SpecTranscribe : TranscriptionProcessor::transcribe_with_language, the  *)
(*                  bounded fan-out over audio segments and the per-       *)
(*                  segment fusion pipeline.                               *)
(*                                                                         *)
(* Times are in ticks of 0.1 s, so that the 0.1 s and 1.0 s constants of   *)
(* align_by_position are whole numbers.                                    *)
(***************************************************************************)
EXTENDS Integers, Sequences, FiniteSets, TLC

VARIABLES
    \* ---- store (SqliteVectorStore) and orchestrator temp dir
    documents,      \* rows of table documents
    transcripts,    \* rows of table transcripts, keyed by video_id
    audioFiles,     \* the <video_id>.mp3 files present in Orchestrator.temp_dir
    \* ---- callers of the orchestrator
    pc,             \* position of each caller inside process_media / rechunk_media
    call,           \* arguments and locals of each caller's current (or last) call
    ret,            \* what each caller's last call returned
    ncalls,         \* calls started so far (names the run, stands for fresh uuids)
    \* ---- one TranscriptionProcessor::transcribe_with_language call
    tpc,            \* position inside transcribe_with_language
    cfg,            \* the processor's configuration
    segments,       \* what split_audio returned: offsets of the audio segments
    nextSeg,        \* next element the stream::iter will hand out
    inflight,       \* segment pipelines inside buffer_unordered
    started,        \* every segment pipeline started so far
    failed,         \* segment pipelines that returned an error
    all_segments,   \* the Vec the while loop extends
    tempDir,        \* the tempfile::TempDir of this call and its contents
    tres,           \* what transcribe returned
    \* ---- one Chunker::chunk call
    chunk_call,     \* the strategy, transcript, config and LLM answer of the call
    chunk_ret,      \* what chunk returned
    \* ---- SqliteVectorStore seen operation by operation
    conn_lock,      \* the operation holding the Mutex<Connection>, if any
    tx,             \* the transaction of the upsert_batch in progress
    store_ret,      \* the store operation that returned last and its result; none while upsert_batch runs
    \* ---- one RagEngine and its chat session
    conversation_history, \* RagEngine.conversation_history
    rag_log,        \* every message pushed to the history since it was last cleared, untrimmed
    rag_sent,       \* the message list of the request the chat model is answering
    rag_pc,         \* position inside chat
    rag_ret,        \* what the last chat call returned
    \* ---- one Agent and one run of it
    max_iterations, \* Agent.max_iterations
    agent_pc,       \* position inside run
    messages,       \* run's message list
    iterations,     \* run's iterations counter
    model_calls,    \* chat completion requests sent by run
    pending,        \* the tool calls of the response not yet executed
    tool_calls_made, \* run's tool_calls_made
    agent_ret,      \* what run returned
    \* ---- one process_segment call seen from outside
    fuse_call,      \* what the models gave process_segment, and its time offset
    fuse_ret,       \* what process_segment returned
    \* ---- one McpServer and its stdin and stdout
    orchestrator,   \* McpServer.orchestrator: is it Some
    mcp_pc,         \* position of run: in its loop, or returned
    mcp_lines,      \* the lines read from stdin so far
    mcp_out,        \* the lines written to stdout so far
    mcp_touched,    \* calls made into the orchestrator, its store or the embedder
    \* ---- one TemporalChunker::chunk call, statement by statement
    temporal_call,  \* the transcript and the config it was called with
    temporal_pc,    \* position of chunk: not called, in its while loop, returned
    temporal_start, \* the local chunk_start
    temporal_order, \* the local chunk_order
    temporal_chunks,\* the local chunks
    window          \* the window [chunk_start, chunk_end] of the last loop pass

ovars == <<documents, transcripts, audioFiles, pc, call, ret, ncalls>>
tvars == <<tpc, cfg, segments, nextSeg, inflight, started, failed, all_segments, tempDir, tres>>
cvars == <<chunk_call, chunk_ret>>
svars == <<conn_lock, tx, store_ret>>
rvars == <<conversation_history, rag_log, rag_sent, rag_pc, rag_ret>>
avars == <<max_iterations, agent_pc, messages, iterations, model_calls, pending, tool_calls_made, agent_ret>>
fvars == <<fuse_call, fuse_ret>>
mvars == <<orchestrator, mcp_pc, mcp_lines, mcp_out, mcp_touched>>
wvars == <<temporal_call, temporal_pc, temporal_start, temporal_order, temporal_chunks, window>>
vars == <<documents, transcripts, audioFiles, pc, call, ret, ncalls,
          tpc, cfg, segments, nextSeg, inflight, started, failed, all_segments, tempDir, tres,
          chunk_call, chunk_ret, conn_lock, tx, store_ret,
          conversation_history, rag_log, rag_sent, rag_pc, rag_ret,
          max_iterations, agent_pc, messages, iterations, model_calls, pending, tool_calls_made, agent_ret,
          fuse_call, fuse_ret,
          orchestrator, mcp_pc, mcp_lines, mcp_out, mcp_touched,
          temporal_call, temporal_pc, temporal_start, temporal_order, temporal_chunks, window>>

\* What the actions of one component leave alone: the other components.
outsideOrchestrator == <<tvars, cvars, svars, rvars, avars, fvars, mvars, wvars>>
outsideTranscribe == <<ovars, cvars, svars, rvars, avars, fvars, mvars, wvars>>
outsideChunker == <<ovars, tvars, svars, rvars, avars, fvars, mvars, wvars>>
outsideStore == <<transcripts, audioFiles, pc, call, ret, ncalls, tvars, cvars, rvars, avars, fvars, mvars, wvars>>
outsideRag == <<ovars, tvars, cvars, svars, avars, fvars, mvars, wvars>>
outsideAgent == <<ovars, tvars, cvars, svars, rvars, fvars, mvars, wvars>>
outsideFuse == <<ovars, tvars, cvars, svars, rvars, avars, mvars, wvars>>
outsideMcp == <<ovars, tvars, cvars, svars, rvars, avars, fvars, wvars>>
outsideTemporal == <<ovars, tvars, cvars, svars, rvars, avars, fvars, mvars>>

None == "none"

Min(a, b) == IF a <= b THEN a ELSE b
Max(a, b) == IF a >= b THEN a ELSE b

(***************************************************************************)
(* Bounds of the model.                                                    *)
(***************************************************************************)
MaxCalls == 2
MaxChunks == 2

(***************************************************************************)
(* Inputs and the source adapters.                                         *)
(***************************************************************************)
RemoteId == "dQw4w9WgXcQ"
RemoteUrl == "https://youtu.be/dQw4w9WgXcQ"
LocalPath == "/a/talk.mp3"
BadInput == "notes"
LocalMetaId == "local__a_talk.mp3"

Inputs == {RemoteId, RemoteUrl, LocalPath, BadInput}
MediaIds == {RemoteId, LocalPath, LocalMetaId}
Callers == {1, 2}
SeqCallers == {1}

\* YoutubeSource::extract_video_id: the 11 character code of a URL or a bare id.
ExtractVideoId(x) ==
    IF x \in {RemoteId, RemoteUrl} THEN RemoteId ELSE None

\* detect_source: the remote adapter is asked first, the local one second.
DetectSource(x) ==
    IF ExtractVideoId(x) # None THEN "youtube"
    ELSE IF x = LocalPath THEN "local"
    ELSE None

\* parse_input: the id the chosen adapter extracts. LocalSource::extract_id
\* returns the input string itself.
ParseInput(x) ==
    CASE DetectSource(x) = "youtube" -> ExtractVideoId(x)
      [] DetectSource(x) = "local" -> x
      [] OTHER -> None

\* The id field of the MediaMetadata that fetch_media returns for parsed id `id`:
\* the video code for a remote video, "local_" + canonical path with separators
\* replaced by "_" for a local file.
FetchedId(source, id) ==
    IF source = "youtube" THEN ExtractVideoId(id)
    ELSE IF id = LocalPath THEN LocalMetaId ELSE id

(***************************************************************************)
(* The store.                                                              *)
(***************************************************************************)
\* Document::new: a fresh uuid (the run and the position stand for it).
\* of is a ghost field: the number of chunks of the run that built the row.
Document(video_id, order, run, n) ==
    [id |-> <<run, order>>, video_id |-> video_id, chunk_order |-> order,
     run |-> run, of |-> n]

\* get_by_video_id (as a set; the rows are returned ORDER BY chunk_order)
GetByVideoId(docs, video_id) == {d \in docs : d.video_id = video_id}

\* get_video / is_video_indexed: the GROUP BY row exists iff a document exists
IsVideoIndexed(docs, video_id) == GetByVideoId(docs, video_id) # {}

\* delete_by_video_id
DeleteByVideoId(docs, video_id) == {d \in docs : d.video_id # video_id}

\* INSERT OR REPLACE of one row, on the primary key id
InsertOrReplace(docs, d) == {e \in docs : e.id # d.id} \cup {d}

RECURSIVE InsertAll(_, _)
InsertAll(docs, batch) ==
    IF batch = <<>> THEN docs
    ELSE InsertAll(InsertOrReplace(docs, Head(batch)), Tail(batch))

\* A batch whose failAt-th insert fails, written without a transaction.
UpsertBatchNoTx(docs, batch, failAt) ==
    IF failAt = 0 THEN InsertAll(docs, batch)
    ELSE InsertAll(docs, SubSeq(batch, 1, failAt - 1))

\* upsert_batch: every insert runs in one transaction; an insert that fails
\* (failAt, 0 for none) leaves through `?`, the transaction is dropped and
\* rolled back.
UpsertBatch(docs, batch, failAt) ==
    IF failAt = 0 THEN InsertAll(docs, batch) ELSE docs

\* store_transcript: INSERT OR REPLACE on the primary key video_id
StoreTranscript(trs, video_id, tr) == [trs EXCEPT ![video_id] = tr]

\* get_transcript
GetTranscript(trs, video_id) == trs[video_id]

(***************************************************************************)
(* Orchestrator helpers.                                                   *)
(***************************************************************************)
\* The skip test of process_media, negated.
SkipCheckInverted(force, indexed) == force /\ indexed

\* process_media: if !force && is_video_indexed(media_id)
SkipCheck(force, indexed) == ~force /\ indexed

\* The documents index_chunks / rechunk_media build: chunks zipped with embeddings.
BuildDocuments(video_id, nchunks, nembed, run) ==
    [k \in 1..Min(nchunks, nembed) |-> Document(video_id, k - 1, run, nchunks)]

NoCall ==
    [op |-> None, input |-> None, force |-> FALSE, media_id |-> None,
     source |-> None, meta_id |-> None, tr |-> None, nchunks |-> 0, run |-> 0,
     downloaded |-> FALSE, wasIndexed |-> FALSE, invoked |-> {},
     lookup |-> None, warned |-> FALSE]

NoRet ==
    [status |-> None, stage |-> None, skipped |-> FALSE, chunks_indexed |-> 0,
     media_id |-> None]

Ok(media_id, n, skipped) ==
    [status |-> "ok", stage |-> None, skipped |-> skipped, chunks_indexed |-> n,
     media_id |-> media_id]

Err(stage) ==
    [status |-> "err", stage |-> stage, skipped |-> FALSE, chunks_indexed |-> 0,
     media_id |-> None]

Invoke(c, what) == [c EXCEPT !.invoked = @ \cup {what}]


\* index_chunks leaves at once, before the delete, for an empty chunk list.
IndexChunksReturnsEarly(nchunks) == nchunks = 0

\* The key process_media hands to store_transcript: the id parse_input gave
\* (not the id of the fetched metadata).
TranscriptKey(c) == c.media_id

\* The file name download_audio derives its target from: <video_id>.mp3, with
\* the parsed id as video_id.
AudioKey(c) == c.media_id

\* What the chunker can return for a transcript: an error, or a list of chunks
\* (its length; the chunks carry the orders 0..n-1). A transcript without
\* segments gives the empty list before any model call.
ChunkOutcomes(tr) ==
    IF tr = "empty" THEN {[ok |-> TRUE, n |-> 0]}
    ELSE {[ok |-> FALSE, n |-> 0]} \cup {[ok |-> TRUE, n |-> k] : k \in 0..MaxChunks}

Return(p, r) ==
    /\ pc' = [pc EXCEPT ![p] = "idle"]
    /\ ret' = [ret EXCEPT ![p] = r]

\* The end of process_media after index_chunks returned: remove the audio
\* file, return the result with the metadata's id.
Finish(p, indexed) ==
    /\ audioFiles' = audioFiles \ {AudioKey(call[p])}
    /\ Return(p, Ok(call[p].meta_id, indexed, FALSE))

(***************************************************************************)
(* Orchestrator::process_media                                             *)
(***************************************************************************)
StartProcess(p, x, force) ==
    /\ UNCHANGED outsideOrchestrator
    /\ pc[p] = "idle"
    /\ ncalls < MaxCalls
    /\ ncalls' = ncalls + 1
    /\ LET id == ParseInput(x)
           c == [NoCall EXCEPT !.op = "process", !.input = x, !.force = force,
                               !.media_id = id, !.source = DetectSource(x),
                               !.run = ncalls + 1]
       IN /\ call' = [call EXCEPT ![p] = c]
          /\ IF id = None
             THEN Return(p, Err("parse"))
             ELSE IF SkipCheck(force, IsVideoIndexed(documents, id))
             THEN Return(p, Ok(id, 0, TRUE))
             ELSE /\ pc' = [pc EXCEPT ![p] = "fetch"]
                  /\ ret' = [ret EXCEPT ![p] = NoRet]
    /\ UNCHANGED <<documents, transcripts, audioFiles>>

FetchMedia(p) ==
    /\ UNCHANGED outsideOrchestrator
    /\ pc[p] = "fetch"
    /\ \E out \in {"ok", "err", "too_long"} :
        LET mid == FetchedId(call[p].source, call[p].media_id)
            c == [Invoke(call[p], "fetch") EXCEPT
                      !.meta_id = mid,
                      !.wasIndexed = IsVideoIndexed(documents, mid)]
        IN IF out = "ok"
           THEN /\ call' = [call EXCEPT ![p] = c]
                /\ pc' = [pc EXCEPT ![p] = "download"]
                /\ UNCHANGED ret
           ELSE /\ call' = [call EXCEPT ![p] = Invoke(call[p], "fetch")]
                /\ Return(p, Err(out))
    /\ UNCHANGED <<documents, transcripts, audioFiles, ncalls>>

DownloadAudio(p) ==
    /\ UNCHANGED outsideOrchestrator
    /\ pc[p] = "download"
    /\ IF AudioKey(call[p]) \in audioFiles
       THEN \* cached file: returned without a download
            /\ call' = [call EXCEPT ![p] = Invoke(call[p], "download")]
            /\ pc' = [pc EXCEPT ![p] = "transcribe"]
            /\ UNCHANGED <<audioFiles, ret>>
       ELSE \E ok \in BOOLEAN :
            IF ok
            THEN /\ audioFiles' = audioFiles \cup {AudioKey(call[p])}
                 /\ call' = [call EXCEPT ![p] =
                        [Invoke(call[p], "download") EXCEPT !.downloaded = TRUE]]
                 /\ pc' = [pc EXCEPT ![p] = "transcribe"]
                 /\ UNCHANGED ret
            ELSE /\ call' = [call EXCEPT ![p] = Invoke(call[p], "download")]
                 /\ Return(p, Err("download"))
                 /\ UNCHANGED audioFiles
    /\ UNCHANGED <<documents, transcripts, ncalls>>

Transcribe(p) ==
    /\ UNCHANGED outsideOrchestrator
    /\ pc[p] = "transcribe"
    /\ \E out \in {"err", "empty", "text"} :
        IF out = "err"
        THEN /\ call' = [call EXCEPT ![p] = Invoke(call[p], "transcribe")]
             /\ Return(p, Err("transcribe"))
        ELSE /\ call' = [call EXCEPT ![p] =
                    [Invoke(call[p], "transcribe") EXCEPT !.tr = out]]
             /\ pc' = [pc EXCEPT ![p] = "store_transcript"]
             /\ UNCHANGED ret
    /\ UNCHANGED <<documents, transcripts, audioFiles, ncalls>>

\* Whether a store_transcript result ends process_media: `?` would end it
\* on Err, `if let Err(e) = .. { warn!(..) }` never does.
PropagatedByTry(ok) == ~ok
Propagated(ok) == FALSE

\* if let Err(e) = store_transcript(..) { warn!(..) }: a failure changes
\* nothing and is logged
StoreRawTranscript(p) ==
    /\ UNCHANGED outsideOrchestrator
    /\ pc[p] = "store_transcript"
    /\ \E ok \in BOOLEAN :
        /\ transcripts' = IF ok
                          THEN StoreTranscript(transcripts, TranscriptKey(call[p]),
                                               call[p].tr)
                          ELSE transcripts
        /\ call' = [call EXCEPT ![p] =
                        [Invoke(call[p], "store_transcript") EXCEPT !.warned = ~ok]]
        /\ IF Propagated(ok)
           THEN Return(p, Err("store_transcript"))
           ELSE /\ pc' = [pc EXCEPT ![p] = "chunk"]
                /\ UNCHANGED ret
    /\ UNCHANGED <<documents, audioFiles, ncalls>>

ChunkTranscript(p) ==
    /\ UNCHANGED outsideOrchestrator
    /\ pc[p] = "chunk"
    /\ \E out \in ChunkOutcomes(call[p].tr) :
        IF ~out.ok
        THEN /\ call' = [call EXCEPT ![p] = Invoke(call[p], "chunk")]
             /\ Return(p, Err("chunk"))
             /\ UNCHANGED audioFiles
        ELSE /\ call' = [call EXCEPT ![p] =
                    [Invoke(call[p], "chunk") EXCEPT !.nchunks = out.n]]
             /\ IF IndexChunksReturnsEarly(out.n)
                THEN Finish(p, 0)
                ELSE /\ pc' = [pc EXCEPT ![p] = "index_delete"]
                     /\ UNCHANGED <<audioFiles, ret>>
    /\ UNCHANGED <<documents, transcripts, ncalls>>

IndexDelete(p) ==
    /\ UNCHANGED outsideOrchestrator
    /\ pc[p] = "index_delete"
    /\ call' = [call EXCEPT ![p] = Invoke(call[p], "delete")]
    /\ \E ok \in BOOLEAN :
        IF ok
        THEN /\ documents' = DeleteByVideoId(documents, call[p].meta_id)
             /\ pc' = [pc EXCEPT ![p] = "index_embed"]
             /\ UNCHANGED ret
        ELSE /\ Return(p, Err("delete"))
             /\ UNCHANGED documents
    /\ UNCHANGED <<transcripts, audioFiles, ncalls>>

IndexEmbed(p) ==
    /\ UNCHANGED outsideOrchestrator
    /\ pc[p] = "index_embed"
    /\ call' = [call EXCEPT ![p] = Invoke(call[p], "embed")]
    /\ \E ok \in BOOLEAN :
        IF ok
        THEN /\ pc' = [pc EXCEPT ![p] = "index_upsert"]
             /\ UNCHANGED ret
        ELSE Return(p, Err("embed"))
    /\ UNCHANGED <<documents, transcripts, audioFiles, ncalls>>

IndexUpsert(p) ==
    /\ UNCHANGED outsideOrchestrator
    /\ pc[p] = "index_upsert"
    /\ call' = [call EXCEPT ![p] = Invoke(call[p], "upsert")]
    /\ \E failAt \in 0..call[p].nchunks :
        LET c == call[p]
            batch == BuildDocuments(c.meta_id, c.nchunks, c.nchunks, c.run)
        IN /\ documents' = UpsertBatch(documents, batch, failAt)
           /\ IF failAt = 0
              THEN Finish(p, Len(batch))
              ELSE /\ Return(p, Err("upsert"))
                   /\ UNCHANGED audioFiles
    /\ UNCHANGED <<transcripts, ncalls>>

(***************************************************************************)
(* Orchestrator::rechunk_media                                             *)
(***************************************************************************)
\* The ok_or_else of rechunk_media: get_transcript found no row.
TranscriptMissingNever(tr) == FALSE
TranscriptMissing(tr) == tr = None

\* rechunk_media up to the chunker. get_transcript either fails (the lock,
\* the query or the stored JSON), and its error leaves through `?`, or
\* answers with the stored transcript or with None.
StartRechunk(p, video_id) ==
    /\ UNCHANGED outsideOrchestrator
    /\ pc[p] = "idle"
    /\ ncalls < MaxCalls
    /\ ncalls' = ncalls + 1
    /\ \E answered \in BOOLEAN :
       LET tr == IF answered THEN GetTranscript(transcripts, video_id) ELSE None
           c == [NoCall EXCEPT !.op = "rechunk", !.input = video_id,
                               !.media_id = video_id, !.meta_id = video_id,
                               !.tr = tr, !.run = ncalls + 1,
                               !.wasIndexed = IsVideoIndexed(documents, video_id),
                               !.lookup = IF answered THEN "answered" ELSE "failed"]
       IN /\ call' = [call EXCEPT ![p] = c]
          /\ IF ~answered
             THEN Return(p, Err("get_transcript"))
             ELSE IF TranscriptMissing(tr)
             THEN Return(p, Err("no_transcript"))
             ELSE /\ pc' = [pc EXCEPT ![p] = "r_chunk"]
                  /\ ret' = [ret EXCEPT ![p] = NoRet]
    /\ UNCHANGED <<documents, transcripts, audioFiles>>

RechunkChunk(p) ==
    /\ UNCHANGED outsideOrchestrator
    /\ pc[p] = "r_chunk"
    /\ \E out \in ChunkOutcomes(call[p].tr) :
        IF ~out.ok
        THEN /\ call' = [call EXCEPT ![p] = Invoke(call[p], "chunk")]
             /\ Return(p, Err("chunk"))
        ELSE /\ call' = [call EXCEPT ![p] =
                    [Invoke(call[p], "chunk") EXCEPT !.nchunks = out.n]]
             /\ pc' = [pc EXCEPT ![p] = "r_delete"]
             /\ UNCHANGED ret
    /\ UNCHANGED <<documents, transcripts, audioFiles, ncalls>>

RechunkDelete(p) ==
    /\ UNCHANGED outsideOrchestrator
    /\ pc[p] = "r_delete"
    /\ call' = [call EXCEPT ![p] = Invoke(call[p], "delete")]
    /\ \E ok \in BOOLEAN :
        IF ok
        THEN /\ documents' = DeleteByVideoId(documents, call[p].media_id)
             /\ pc' = [pc EXCEPT ![p] = "r_embed"]
             /\ UNCHANGED ret
        ELSE /\ Return(p, Err("delete"))
             /\ UNCHANGED documents
    /\ UNCHANGED <<transcripts, audioFiles, ncalls>>

RechunkEmbed(p) ==
    /\ UNCHANGED outsideOrchestrator
    /\ pc[p] = "r_embed"
    /\ call' = [call EXCEPT ![p] = Invoke(call[p], "embed")]
    /\ \E ok \in BOOLEAN :
        IF ok
        THEN /\ pc' = [pc EXCEPT ![p] = "r_upsert"]
             /\ UNCHANGED ret
        ELSE Return(p, Err("embed"))
    /\ UNCHANGED <<documents, transcripts, audioFiles, ncalls>>

RechunkUpsert(p) ==
    /\ UNCHANGED outsideOrchestrator
    /\ pc[p] = "r_upsert"
    /\ call' = [call EXCEPT ![p] = Invoke(call[p], "upsert")]
    /\ \E failAt \in 0..call[p].nchunks :
        LET c == call[p]
            batch == BuildDocuments(c.media_id, c.nchunks, c.nchunks, c.run)
        IN /\ documents' = UpsertBatch(documents, batch, failAt)
           /\ IF failAt = 0
              THEN Return(p, Ok(c.media_id, Len(batch), FALSE))
              ELSE Return(p, Err("upsert"))
    /\ UNCHANGED <<transcripts, audioFiles, ncalls>>

(***************************************************************************)
(* Specification of the orchestrator: one call at a time.                  *)
(***************************************************************************)
OInit ==
    /\ documents = {}
    /\ transcripts = [m \in MediaIds |-> None]
    /\ audioFiles = {}
    /\ pc = [p \in Callers |-> "idle"]
    /\ call = [p \in Callers |-> NoCall]
    /\ ret = [p \in Callers |-> NoRet]
    /\ ncalls = 0

\* No directory on disk
NoDir == [exists |-> FALSE, files |-> {}]

\* No Transcript: what tres.transcript holds when transcribe returned Err
NoTranscript == [segments |-> <<>>, duration_seconds |-> -1]

\* Nothing returned yet. offset is the offset the error message names;
\* dropped (the pipelines) and discarded (the number of collected segments)
\* record what an error return threw away.
NoTRes ==
    [status |-> None, stage |-> None, offset |-> -1, transcript |-> NoTranscript,
     dropped |-> {}, discarded |-> 0]

TIdle ==
    /\ tpc = "idle"
    /\ cfg = [max_concurrent_segments |-> 1, full_fusion |-> FALSE]
    /\ segments = <<>>
    /\ nextSeg = 1
    /\ inflight = {}
    /\ started = {}
    /\ failed = {}
    /\ all_segments = <<>>
    /\ tempDir = NoDir
    /\ tres = NoTRes

\* No chunk call has been made.
NoChunkCall ==
    [strategy |-> None, transcript |-> NoTranscript,
     config |-> [target_duration |-> 0, min_duration |-> 0, max_duration |-> 0],
     llm |-> [status |-> None, sections |-> <<>>]]

NoChunkRet == [status |-> None, chunks |-> <<>>]

CIdle ==
    /\ chunk_call = NoChunkCall
    /\ chunk_ret = NoChunkRet

\* No transaction is open.
NoTx == [active |-> FALSE, before |-> {}, batch |-> <<>>, next |-> 1]

\* No store operation has returned yet.
NoStoreRet == [op |-> None, status |-> None, arg |-> <<>>, value |-> <<>>]

SIdle ==
    /\ conn_lock = None
    /\ tx = NoTx
    /\ store_ret = NoStoreRet

\* A RagEngine as new() builds it
RIdle ==
    /\ conversation_history = <<>>
    /\ rag_log = <<>>
    /\ rag_sent = <<>>
    /\ rag_pc = "idle"
    /\ rag_ret = None

\* Agent::new's max_iterations
DefaultMaxIterations == 15

NoAgentRet ==
    [status |-> None, content |-> <<>>, tool_calls |-> <<>>, iterations |-> 0,
     error |-> [kind |-> None, msg |-> <<>>]]

\* An Agent built with max_iterations = max, before run is called
AgentBuilt(max) ==
    /\ max_iterations = max
    /\ agent_pc = "idle"
    /\ messages = <<>>
    /\ iterations = 0
    /\ model_calls = 0
    /\ pending = <<>>
    /\ tool_calls_made = <<>>
    /\ agent_ret = NoAgentRet

\* An Agent as new() builds it
AIdle == AgentBuilt(DefaultMaxIterations)

\* McpServer::new, nothing read or written
MIdle ==
    /\ orchestrator = FALSE
    /\ mcp_pc = "running"
    /\ mcp_lines = <<>>
    /\ mcp_out = <<>>
    /\ mcp_touched = 0

\* No process_segment call yet
NoFuseCall ==
    [pc |-> "idle", full_fusion |-> FALSE, index |-> 0, time_offset |-> 0,
     words |-> <<>>, text |-> <<0>>, llm |-> [ok |-> FALSE, segments |-> <<>>]]

NoFuseRet == [status |-> None, segments |-> <<>>]

FIdle ==
    /\ fuse_call = NoFuseCall
    /\ fuse_ret = NoFuseRet

\* No window walked yet. pass is the parity of the number of loop passes
\* made: a pass that leaves every local as it was is still a step.
NoWindow == [start |-> -1, end |-> -1, pass |-> 0]

\* No TemporalChunker::chunk call is being walked through.
WIdle ==
    /\ temporal_call = [transcript |-> NoTranscript,
                        config |-> [target_duration |-> 0, min_duration |-> 0,
                                    max_duration |-> 0]]
    /\ temporal_pc = "idle"
    /\ temporal_start = 0
    /\ temporal_order = 0
    /\ temporal_chunks = <<>>
    /\ window = NoWindow

Init == OInit /\ TIdle /\ CIdle /\ SIdle /\ RIdle /\ AIdle /\ FIdle /\ MIdle /\ WIdle

Next ==
    \E p \in SeqCallers :
        \/ \E x \in Inputs, force \in BOOLEAN : StartProcess(p, x, force)
        \/ FetchMedia(p)
        \/ DownloadAudio(p)
        \/ Transcribe(p)
        \/ StoreRawTranscript(p)
        \/ ChunkTranscript(p)
        \/ IndexDelete(p)
        \/ IndexEmbed(p)
        \/ IndexUpsert(p)
        \/ \E v \in MediaIds : StartRechunk(p, v)
        \/ RechunkChunk(p)
        \/ RechunkDelete(p)
        \/ RechunkEmbed(p)
        \/ RechunkUpsert(p)

Spec == Init /\ [][Next]_vars

(***************************************************************************)
(* The HTTP server: every /transcribe request runs process_media on the    *)
(* one shared Orchestrator in a task of its own, so two calls interleave   *)
(* at every await.                                                         *)
(***************************************************************************)
transcribe(p) ==
    \/ \E x \in Inputs, force \in BOOLEAN : StartProcess(p, x, force)
    \/ FetchMedia(p)
    \/ DownloadAudio(p)
    \/ Transcribe(p)
    \/ StoreRawTranscript(p)
    \/ ChunkTranscript(p)
    \/ IndexDelete(p)
    \/ IndexEmbed(p)
    \/ IndexUpsert(p)

NextServe == \E p \in Callers : transcribe(p)

SpecServe == Init /\ [][NextServe]_vars


(***************************************************************************)
(* The fusion transcription engine (TranscriptionProcessor).               *)
(* A time is a whole number of ticks of 0.1 s.                             *)
(***************************************************************************)
MaxSegments == 4
MaxConcurrent == 2

segment_duration_seconds == 300
\* 0.1 s: the least length align_by_position gives a sentence
MinSpan == 1
\* 1.0 s: the slack below which the last sentence is not extended
ExtendSlack == 10
\* 10.0 s: the duration assumed when there is no last word
DefaultDuration == 100

Ticks(seconds) == seconds * 10

\* usize::saturating_sub
SatSub(a, b) == IF a >= b THEN a - b ELSE 0

Word(s, e) == [start |-> s, end |-> e]
FusedSegment(text, s, e) == [text |-> text, start_seconds |-> s, end_seconds |-> e]

\* Word lists the timestamp model can return for one audio segment (times
\* relative to the segment).
WordLists ==
    { <<>>, <<Word(0, 10), Word(10, 25)>> }

\* A text is the sequence of the pieces between its sentence marks (. ! ?),
\* each piece given by its number of whitespace separated words. <<0>> is a
\* blank text.
Texts == { <<0>>, <<2>>, <<1>>, <<1, 1>>, <<2, 2>> }

\* What the fusion model can answer: no usable answer (the call fails, or the
\* content is not the expected JSON), or a list of segments, which nothing
\* in the code validates.
NoLlmAnswer == [ok |-> FALSE, segments |-> <<>>]

LlmAnswers ==
    { NoLlmAnswer,
      [ok |-> TRUE, segments |-> <<>>],
      [ok |-> TRUE, segments |-> <<FusedSegment(1, 0, 10), FusedSegment(2, 10, 25)>>],
      [ok |-> TRUE, segments |-> <<FusedSegment(1, Ticks(segment_duration_seconds),
                                                 Ticks(segment_duration_seconds) + 10),
                                    FusedSegment(2, 0, 15)>>] }

RECURSIVE SumSeq(_)
SumSeq(q) == IF q = <<>> THEN 0 ELSE Head(q) + SumSeq(Tail(q))

\* text.trim().is_empty()
Blank(text) == text = <<0>>

\* words.last().map(|w| w.end).unwrap_or(10.0)
LastEndOr(words, dflt) == IF words = <<>> THEN dflt ELSE words[Len(words)].end

\* The sentences of a text: the indices of its non-empty pieces, in order.
RECURSIVE SentencesFrom(_, _)
SentencesFrom(text, k) ==
    IF k > Len(text) THEN <<>>
    ELSE IF text[k] > 0 THEN <<k>> \o SentencesFrom(text, k + 1)
    ELSE SentencesFrom(text, k + 1)

Sentences(text) == SentencesFrom(text, 1)

\* The for loop of align_by_position over the sentences, from sentence j on,
\* with word_idx words consumed so far. tag names the audio the text is of.
RECURSIVE AlignLoop(_, _, _, _, _, _, _)
AlignLoop(words, text, sentences, j, word_idx, time_offset, tag) ==
    IF j > Len(sentences) THEN <<>>
    ELSE LET total_words == Len(words)
             sentence_word_count == text[sentences[j]]
             start_idx == Min(word_idx, SatSub(total_words, 1))
             end_idx == SatSub(Min(word_idx + sentence_word_count, total_words), 1)
             start == words[start_idx + 1].start
             end == words[end_idx + 1].end
         IN <<FusedSegment(<<tag, sentences[j]>>,
                           time_offset + start,
                           time_offset + Max(end, start + MinSpan))>>
            \o AlignLoop(words, text, sentences, j + 1,
                         word_idx + sentence_word_count, time_offset, tag)

\* The extension with the end of the words taken without the offset
ExtendLastNoOffset(segs, words, time_offset) ==
    IF segs = <<>> THEN segs
    ELSE LET segment_end == LastEndOr(words, DefaultDuration)
             n == Len(segs)
         IN IF segs[n].end_seconds < segment_end - ExtendSlack
            THEN [segs EXCEPT ![n].end_seconds = segment_end]
            ELSE segs

\* "Ensure last segment extends to end"
ExtendLast(segs, words, time_offset) ==
    IF segs = <<>> THEN segs
    ELSE LET segment_end == time_offset + LastEndOr(words, DefaultDuration)
             n == Len(segs)
         IN IF segs[n].end_seconds < segment_end - ExtendSlack
            THEN [segs EXCEPT ![n].end_seconds = segment_end]
            ELSE segs

\* align_by_position
AlignByPosition(words, text, time_offset, tag) ==
    IF words = <<>> \/ Blank(text) \/ Sentences(text) = <<>>
    THEN <<FusedSegment(<<tag, 0>>, time_offset,
                        time_offset + LastEndOr(words, DefaultDuration))>>
    ELSE ExtendLast(AlignLoop(words, text, Sentences(text), 1, 0, time_offset, tag),
                    words, time_offset)

\* "Adjust timestamps by offset"
Shift(segs, time_offset, tag) ==
    [k \in DOMAIN segs |->
        FusedSegment(<<tag, segs[k].text>>,
                     segs[k].start_seconds + time_offset,
                     segs[k].end_seconds + time_offset)]

\* fuse_segment: always Ok
FuseSegment(words, text, llm, time_offset, tag) ==
    IF words = <<>> \/ Blank(text)
    THEN IF ~Blank(text)
         THEN <<FusedSegment(<<tag, 0>>, time_offset,
                             time_offset + LastEndOr(words, DefaultDuration))>>
         ELSE <<>>
    ELSE IF llm.ok /\ llm.segments # <<>>
         THEN Shift(llm.segments, time_offset, tag)
         ELSE AlignByPosition(words, text, time_offset, tag)

\* The text process_segment fuses: the text model's answer in full fusion,
\* the words joined by spaces otherwise (as many words as the word list has).
TextsFor(full_fusion, words) ==
    IF full_fusion THEN Texts
    ELSE {t \in Texts : SumSeq(t) = Len(words) /\ (Len(words) = 0 => t = <<0>>)}

\* process_segment: Err when a transcription call fails (try_join! / `?`),
\* else the fused segments as TranscriptSegments.
ProcessSegment(whisper_ok, text_ok, words, text, llm, time_offset, tag) ==
    IF ~whisper_ok \/ ~text_ok
    THEN [ok |-> FALSE, segments |-> <<>>]
    ELSE [ok |-> TRUE, segments |-> FuseSegment(words, text, llm, time_offset, tag)]

\* fuse_with_llm is reached only when both transcriptions succeeded and
\* neither the word list nor the text is empty.
CallsLlm(whisper_ok, text_ok, words, text) ==
    whisper_ok /\ text_ok /\ words # <<>> /\ ~Blank(text)

\* Vec::sort_by on start_seconds: a stable sort
RECURSIVE InsertByStart(_, _)
InsertByStart(sorted, x) ==
    IF sorted = <<>> THEN <<x>>
    ELSE IF sorted[Len(sorted)].start_seconds <= x.start_seconds
         THEN Append(sorted, x)
         ELSE Append(InsertByStart(SubSeq(sorted, 1, Len(sorted) - 1), x),
                     sorted[Len(sorted)])

RECURSIVE SortFrom(_, _, _)
SortFrom(q, k, acc) ==
    IF k > Len(q) THEN acc ELSE SortFrom(q, k + 1, InsertByStart(acc, q[k]))

SortByStart(q) == SortFrom(q, 1, <<>>)

\* Transcript::new
Transcript(segs) ==
    [segments |-> segs,
     duration_seconds |-> IF segs = <<>> THEN 0 ELSE segs[Len(segs)].end_seconds]

\* ---- transcribe_with_language, step by step ----

TOk(transcript) ==
    [status |-> "ok", stage |-> None, offset |-> -1, transcript |-> transcript,
     dropped |-> {}, discarded |-> 0]

TErr(stage, offset, dropped, discarded) ==
    [status |-> "err", stage |-> stage, offset |-> offset, transcript |-> NoTranscript,
     dropped |-> dropped, discarded |-> discarded]

\* tempfile::tempdir(): a fresh, empty directory
NewTempDir == [exists |-> TRUE, files |-> {}]

\* A TempDir that is never removed.
KeepTempDir(dir) == dir

\* Drop of tempfile::TempDir: the directory and its contents are removed.
DropTempDir(dir) == NoDir

\* buffer_unordered without a limit
CanStartUnbounded(in_progress, max) == TRUE

\* buffer_unordered(max): a further future is taken from the stream only
\* while fewer than max are in progress.
CanStartSegment(in_progress, max) == in_progress < max

\* An error handler that logs and goes on.
FailFastNever(result) == FALSE

\* The Err arm of the while loop: return at the first failed segment.
FailFast(result) == ~result.ok

\* split_audio's offsets: idx * chunk_len
Offsets(n) == [k \in 1..n |-> Ticks((k - 1) * segment_duration_seconds)]

\* let temp_dir = tempfile::tempdir()?;
BeginTranscribe ==
    /\ UNCHANGED outsideTranscribe
    /\ tpc = "idle"
    /\ \E ok \in BOOLEAN :
        IF ok
        THEN /\ tpc' = "split"
             /\ tempDir' = NewTempDir
             /\ tres' = tres
        ELSE /\ tpc' = "done"
             /\ tempDir' = tempDir
             /\ tres' = TErr("tempdir", -1, {}, 0)
    /\ UNCHANGED <<cfg, segments, nextSeg, inflight, started, failed, all_segments>>

\* split_audio(audio_path, temp_dir.path(), segment_duration_seconds).await?
\* n is the number of segments the duration asks for; failAt is the step
\* that fails (0: none; 1 with no file written is also probe_duration).
SplitAudio ==
    /\ UNCHANGED outsideTranscribe
    /\ tpc = "split"
    /\ \E n \in 1..MaxSegments : \E failAt \in 0..n :
        IF failAt = 0
        THEN /\ tpc' = "stream"
             /\ segments' = Offsets(n)
             /\ tempDir' = [tempDir EXCEPT !.files = IF n = 1 THEN {} ELSE 1..n]
             /\ tres' = tres
        ELSE /\ tpc' = "done"
             /\ segments' = segments
             /\ tempDir' = DropTempDir([tempDir EXCEPT !.files =
                                            IF n = 1 THEN {} ELSE 1..(failAt - 1)])
             /\ tres' = TErr("split", -1, {}, 0)
    /\ UNCHANGED <<cfg, nextSeg, inflight, started, failed, all_segments>>

\* buffer_unordered takes the next future from stream::iter(segments).map(..)
StartSegment ==
    /\ UNCHANGED outsideTranscribe
    /\ tpc = "stream"
    /\ nextSeg <= Len(segments)
    /\ CanStartSegment(Cardinality(inflight), cfg.max_concurrent_segments)
    /\ inflight' = inflight \cup {nextSeg}
    /\ started' = started \cup {nextSeg}
    /\ nextSeg' = nextSeg + 1
    /\ UNCHANGED <<tpc, cfg, segments, failed, all_segments, tempDir, tres>>

\* stream.next() yields the result of pipeline i, and the body of the while
\* loop handles it. The buffer is polled only once it has been filled.
CompleteSegment(i) ==
    /\ UNCHANGED outsideTranscribe
    /\ tpc = "stream"
    /\ i \in inflight
    /\ ~(nextSeg <= Len(segments)
         /\ CanStartSegment(Cardinality(inflight), cfg.max_concurrent_segments))
    /\ \E whisper_ok \in BOOLEAN,
          text_ok \in (IF cfg.full_fusion THEN BOOLEAN ELSE {TRUE}) :
        \E words \in (IF whisper_ok THEN WordLists ELSE {<<>>}) :
        \E text \in (IF text_ok THEN TextsFor(cfg.full_fusion, words) ELSE {<<0>>}) :
        \E llm \in (IF CallsLlm(whisper_ok, text_ok, words, text)
                    THEN LlmAnswers ELSE {NoLlmAnswer}) :
            LET result == ProcessSegment(whisper_ok, text_ok, words, text, llm,
                                         segments[i], i)
            IN /\ failed' = IF result.ok THEN failed ELSE failed \cup {i}
               /\ IF FailFast(result)
                  THEN /\ tpc' = "done"
                       /\ tempDir' = DropTempDir(tempDir)
                       /\ tres' = TErr("segment", segments[i],
                                       inflight \ {i}, Len(all_segments))
                       /\ inflight' = {}
                       /\ all_segments' = <<>>
                  ELSE /\ tpc' = tpc
                       /\ tempDir' = tempDir
                       /\ tres' = tres
                       /\ inflight' = inflight \ {i}
                       /\ all_segments' = all_segments \o result.segments
    /\ UNCHANGED <<cfg, segments, nextSeg, started>>

\* The stream is exhausted: drop(temp_dir), sort, Ok(Transcript::new(..))
FinishTranscribe ==
    /\ UNCHANGED outsideTranscribe
    /\ tpc = "stream"
    /\ nextSeg > Len(segments)
    /\ inflight = {}
    /\ tpc' = "done"
    /\ tempDir' = DropTempDir(tempDir)
    /\ tres' = TOk(Transcript(SortByStart(all_segments)))
    /\ all_segments' = <<>>
    /\ UNCHANGED <<cfg, segments, nextSeg, inflight, started, failed>>

\* A processor as with_config builds it, before its one transcribe call.
InitT ==
    /\ OInit
    /\ tpc = "idle"
    /\ cfg \in [max_concurrent_segments : 1..MaxConcurrent, full_fusion : BOOLEAN]
    /\ segments = <<>>
    /\ nextSeg = 1
    /\ inflight = {}
    /\ started = {}
    /\ failed = {}
    /\ all_segments = <<>>
    /\ tempDir = NoDir
    /\ tres = NoTRes
    /\ CIdle
    /\ SIdle
    /\ RIdle
    /\ AIdle
    /\ FIdle
    /\ MIdle
    /\ WIdle

NextT ==
    \/ BeginTranscribe
    \/ SplitAudio
    \/ StartSegment
    \/ \E i \in 1..MaxSegments : CompleteSegment(i)
    \/ FinishTranscribe

SpecTranscribe == InitT /\ [][NextT]_vars

(***************************************************************************)
(* Claims about the orchestrator (checked under Spec).                     *)
(***************************************************************************)
Range(f) == {f[i] : i \in DOMAIN f}

Returned(p) == pc[p] = "idle" /\ ret[p].status # None

\* The step is caller p entering process_media(x, force).
StartsProcess(p, x, force) ==
    /\ pc[p] = "idle"
    /\ ncalls' = ncalls + 1
    /\ call'[p].op = "process"
    /\ call'[p].input = x
    /\ call'[p].force = force

\* C1: after process_media(x, false) returned success with skipped = false and
\* chunks_indexed > 0, the immediately following process_media(x, false)
\* returns skipped = true and chunks_indexed = 0, for every accepted input x.
C1_RepeatIsSkipped ==
    [][\A p \in SeqCallers, x \in Inputs :
        ( /\ Returned(p)
          /\ call[p].op = "process" /\ call[p].input = x /\ ~call[p].force
          /\ ret[p].status = "ok" /\ ~ret[p].skipped /\ ret[p].chunks_indexed > 0
          /\ StartsProcess(p, x, FALSE) )
        => ( /\ pc'[p] = "idle"
             /\ ret'[p].status = "ok"
             /\ ret'[p].skipped
             /\ ret'[p].chunks_indexed = 0 )]_vars

\* C2: process_media(x, false) called while is_indexed(id of x) holds returns
\* {skipped: true, chunks_indexed: 0} at once: no fetch, download,
\* transcription, chunking, embedding or store write is invoked, and the
\* documents, transcripts and audio files are what they were.
C2_SkipTouchesNothing ==
    [][\A p \in SeqCallers, x \in Inputs :
        ( /\ StartsProcess(p, x, FALSE)
          /\ ParseInput(x) # None
          /\ IsVideoIndexed(documents, ParseInput(x)) )
        => ( /\ pc'[p] = "idle"
             /\ ret'[p] = Ok(ParseInput(x), 0, TRUE)
             /\ call'[p].invoked = {}
             /\ documents' = documents
             /\ transcripts' = transcripts
             /\ audioFiles' = audioFiles )]_vars

C2_Witness ==
    \E p \in SeqCallers :
        /\ Returned(p)
        /\ call[p].op = "process" /\ ~call[p].force
        /\ ret[p].status = "ok" /\ ret[p].skipped
        /\ IsVideoIndexed(documents, call[p].media_id)

\* C3: after process_media(x, true) returned success on an already indexed x,
\* get_by_media(x) is exactly the documents built from this run's chunks, for
\* every chunk list the chunker returned (the empty one included).
C3_ForceReplaces ==
    \A p \in SeqCallers :
        ( /\ Returned(p)
          /\ call[p].op = "process" /\ call[p].force /\ call[p].wasIndexed
          /\ ret[p].status = "ok" /\ ~ret[p].skipped )
        => GetByVideoId(documents, ret[p].media_id)
             = Range(BuildDocuments(ret[p].media_id, call[p].nchunks,
                                    call[p].nchunks, call[p].run))

\* C4: after a process_media call that returned success with skipped = false,
\* the store holds exactly one StoredTranscript for the returned media_id and
\* at least one Document for it.
C4_TranscriptAndDocuments ==
    \A p \in SeqCallers :
        ( /\ Returned(p)
          /\ call[p].op = "process"
          /\ ret[p].status = "ok" /\ ~ret[p].skipped )
        => ( /\ GetTranscript(transcripts, ret[p].media_id) # None
             /\ GetByVideoId(documents, ret[p].media_id) # {} )

\* The documents stored for media m are all the documents of one run, or none.
AllOrNothing(m) ==
    LET ds == GetByVideoId(documents, m)
    IN \/ ds = {}
       \/ \E d \in ds : ds = Range(BuildDocuments(m, d.of, d.of, d.run))

\* C5: when process_media or rechunk_media returned an error, at whatever
\* step, the documents of every media are all the documents of one completed
\* run or none: never part of a batch, never rows of two runs.
C5_NoPartialWrite ==
    \A p \in SeqCallers :
        (Returned(p) /\ ret[p].status = "err")
        => \A m \in MediaIds : AllOrNothing(m)

C5_Witness ==
    \E p \in SeqCallers :
        /\ Returned(p)
        /\ ret[p].status = "err" /\ ret[p].stage = "upsert"
        /\ call[p].wasIndexed
        /\ call[p].nchunks >= 2

\* C6: every audio file process_media downloaded is gone from the temp
\* directory when process_media has returned, with success or with an error.
C6_AudioRemoved ==
    \A p \in SeqCallers :
        (Returned(p) /\ call[p].op = "process" /\ call[p].downloaded)
        => AudioKey(call[p]) \notin audioFiles



\* The step is caller p entering rechunk_media(video_id).
StartsRechunk(p, video_id) ==
    /\ pc[p] = "idle"
    /\ ncalls' = ncalls + 1
    /\ call'[p].op = "rechunk"
    /\ call'[p].input = video_id

\* C20: rechunk_media(id), when the store answers that it holds no
\* transcript for id, fails with InvalidInput in that step and changes
\* nothing: no document of any media is deleted or written, no transcript
\* is written, and neither the downloader nor the transcriber (nor anything
\* else) is invoked.
C20_RechunkNeedsTranscript ==
    [][\A p \in Callers, video_id \in MediaIds :
        (StartsRechunk(p, video_id) /\ transcripts[video_id] = None
            /\ call'[p].lookup = "answered") =>
            /\ pc'[p] = "idle"
            /\ ret'[p] = Err("no_transcript")
            /\ call'[p].invoked = {}
            /\ documents' = documents
            /\ transcripts' = transcripts
            /\ audioFiles' = audioFiles]_vars

C20_Witness ==
    \E p \in Callers :
        /\ Returned(p)
        /\ call[p].op = "rechunk"
        /\ call[p].lookup = "answered"
        /\ ret[p] = Err("no_transcript")
        /\ transcripts[call[p].media_id] = None
        /\ GetByVideoId(documents, call[p].media_id) # {}


\* C21: a store_transcript failure during process_media is not propagated:
\* the call goes on to the chunker in that step, every error it returns
\* afterwards is one of a later stage, and when chunker, embedder and store
\* succeed it returns success with skipped = false and the number of chunks
\* indexed.
C21_StoreTranscriptBestEffort ==
    \A p \in Callers :
        (call[p].op = "process" /\ call[p].warned) =>
            /\ pc[p] # "idle" => ret[p] = NoRet
            /\ pc[p] = "idle" =>
                \/ /\ ret[p].status = "err"
                   /\ ret[p].stage \in {"chunk", "delete", "embed", "upsert"}
                \/ /\ ret[p] = Ok(call[p].meta_id, ret[p].chunks_indexed, FALSE)
                   /\ "chunk" \in call[p].invoked
                   /\ ret[p].chunks_indexed = call[p].nchunks
                   /\ call[p].nchunks > 0 =>
                        /\ {"delete", "embed", "upsert"} \subseteq call[p].invoked
                        /\ Cardinality(GetByVideoId(documents, call[p].meta_id))
                                = call[p].nchunks

C21_Witness ==
    \E p \in Callers :
        /\ Returned(p)
        /\ call[p].op = "process"
        /\ call[p].warned
        /\ ret[p].status = "ok"
        /\ ~ret[p].skipped
        /\ ret[p].chunks_indexed = MaxChunks

\* C26: when process_media(x, true) or rechunk_media(x) returned an error
\* and x was indexed when the call began, the documents stored for x before
\* the call are all still there (the whole of an earlier run), so x is
\* still indexed.
C26_FailureKeepsDocuments ==
    \A p \in SeqCallers :
        ( /\ Returned(p)
          /\ ret[p].status = "err"
          /\ call[p].wasIndexed
          /\ call[p].op = "rechunk" \/ call[p].force )
        => ( /\ IsVideoIndexed(documents, call[p].meta_id)
             /\ AllOrNothing(call[p].meta_id)
             /\ \A d \in GetByVideoId(documents, call[p].meta_id) :
                    d.run # call[p].run )

\* C27: rechunk_media called with the media_id that a process_media call
\* just returned (success, skipped = false, transcript written) finds the
\* stored transcript when the store answers: it goes on to the chunker, for
\* remote and local inputs alike.
C27_RechunkAfterProcess ==
    [][\A p \in SeqCallers :
        ( /\ Returned(p)
          /\ call[p].op = "process"
          /\ ret[p].status = "ok" /\ ~ret[p].skipped
          /\ ~call[p].warned
          /\ StartsRechunk(p, ret[p].media_id)
          /\ call'[p].lookup = "answered" )
        => ( /\ transcripts[ret[p].media_id] # None
             /\ pc'[p] = "r_chunk" )]_vars

\* Two process_media calls on the same input have both returned
BothReturned ==
    /\ \A p \in Callers : Returned(p) /\ call[p].op = "process"
    /\ call[1].input = call[2].input
    /\ call[1].media_id # None

\* C25: after two concurrent process_media calls on the same input have
\* both returned, the documents stored for that media are those of one run
\* only: no two of them have the same chunk_order.
C25_OneRunRemains ==
    BothReturned =>
        \A m \in MediaIds :
            \A d, e \in GetByVideoId(documents, m) :
                d.chunk_order = e.chunk_order => d = e

(***************************************************************************)
(* Claims about the transcription engine (checked under SpecTranscribe).   *)
(***************************************************************************)

\* C7: fail fast. The step in which a segment pipeline returns an error is
\* the step in which transcribe returns: the result is an error of the
\* segment stage naming that segment's offset, it carries no Transcript, the
\* results collected so far are gone, no pipeline is left in flight, and no
\* pipeline is started in that step or in any later one.
C7_FailFast ==
    [][/\ \A i \in 1..MaxSegments :
            (i \in inflight /\ i \notin failed /\ i \in failed') =>
                /\ tpc' = "done"
                /\ tres'.status = "err"
                /\ tres'.stage = "segment"
                /\ tres'.offset = segments[i]
                /\ tres'.transcript = NoTranscript
                /\ all_segments' = <<>>
                /\ inflight' = {}
                /\ started' = started
       /\ failed # {} => (started' = started /\ tres'.status # "ok")]_vars

\* A segment failed while a sibling was in flight, results had been collected
\* and a segment was still waiting to be started.
C7_Witness ==
    /\ tpc = "done"
    /\ tres.status = "err"
    /\ tres.stage = "segment"
    /\ failed # {}
    /\ tres.dropped # {}
    /\ tres.discarded > 0
    /\ nextSeg <= Len(segments)

\* C8: whenever transcribe has returned (with a Transcript, after a failed
\* split_audio, or after a failed segment) its temp directory and the
\* segment files in it no longer exist.
C8_TempDirReleased ==
    tpc = "done" => (~tempDir.exists /\ tempDir.files = {})

\* transcribe returned an error of a segment of an audio that was split into
\* files inside the temp directory.
C8_Witness ==
    /\ tpc = "done"
    /\ tres.stage = "segment"
    /\ Len(segments) >= 2
    /\ tempDir = NoDir

\* C9: at every moment the pipelines started and not yet completed are at
\* most max_concurrent_segments.
C9_BoundedConcurrency ==
    /\ inflight \subseteq started
    /\ Cardinality(inflight) <= cfg.max_concurrent_segments

\* The buffer is full with two or more pipelines while a segment waits.
C9_Witness ==
    /\ tpc = "stream"
    /\ cfg.max_concurrent_segments >= 2
    /\ Cardinality(inflight) = cfg.max_concurrent_segments
    /\ nextSeg <= Len(segments)

\* C10: every returned Transcript is sorted by start and no segment ends
\* after the next one starts.
C10_SortedNonOverlapping ==
    tres.status = "ok" =>
        LET segs == tres.transcript.segments
        IN \A k \in 1..(Len(segs) - 1) :
              /\ segs[k].start_seconds <= segs[k + 1].start_seconds
              /\ segs[k].end_seconds <= segs[k + 1].start_seconds

\* The segments of a transcript regrouped by the audio segment they come
\* from, audio segments in index order: what all_segments holds when the
\* pipelines complete in the order they were started.
RECURSIVE InSegmentOrder(_, _)
InSegmentOrder(segs, i) ==
    IF i > MaxSegments THEN <<>>
    ELSE SelectSeq(segs, LAMBDA s : s.text[1] = i) \o InSegmentOrder(segs, i + 1)

\* C11: the returned Transcript does not depend on the order in which the
\* pipelines completed: it is the Transcript that completion in segment
\* order gives for the same per-segment results.
C11_OrderIndependent ==
    tres.status = "ok" =>
        tres.transcript =
            Transcript(SortByStart(InSegmentOrder(tres.transcript.segments, 1)))

(***************************************************************************)
(* The chunkers (SemanticChunker, TemporalChunker). Times are ticks; the   *)
(* durations of a ChunkingConfig are whole seconds. A text is the sequence *)
(* of its words, so joining texts with spaces is concatenation and a       *)
(* text that is empty after trim() is the empty sequence.                  *)
(***************************************************************************)

TranscriptSegment(s, e, text) == [text |-> text, start_seconds |-> s, end_seconds |-> e]

\* Transcripts handed to a chunker (Transcript::new of these segments).
ChunkTranscripts ==
    { Transcript(<<>>),
      Transcript(<<TranscriptSegment(0, 300, <<"a">>)>>),
      Transcript(<<TranscriptSegment(0, 300, <<>>)>>),
      Transcript(<<TranscriptSegment(0, 300, <<"a">>),
                   TranscriptSegment(300, 600, <<"b">>),
                   TranscriptSegment(600, 900, <<"c">>)>>),
      Transcript(<<TranscriptSegment(0, 300, <<>>),
                   TranscriptSegment(300, 600, <<"b">>),
                   TranscriptSegment(600, 900, <<"c">>)>>) }

\* Configurations with max >= min >= 0 and a positive target.
ChunkingConfigs ==
    { c \in [target_duration : {30, 60}, min_duration : {0, 40, 120},
             max_duration : {60, 120}] : c.max_duration >= c.min_duration }

ChunkingStrategies == {"semantic", "temporal", "hybrid"}

LLMSection(s, e) == [start_seconds |-> s, end_seconds |-> e]

\* What the chunking model answers: the call fails, the content is not a
\* JSON list of sections, or it is a list of sections, which nothing
\* validates.
ChunkLlmAnswers ==
    { [status |-> "call_failed", sections |-> <<>>],
      [status |-> "unparseable", sections |-> <<>>],
      [status |-> "ok", sections |-> <<>>],
      [status |-> "ok", sections |-> <<LLMSection(0, 300), LLMSection(300, 900)>>],
      [status |-> "ok", sections |-> <<LLMSection(300, 900), LLMSection(0, 300)>>],
      [status |-> "ok", sections |-> <<LLMSection(0, 450), LLMSection(450, 900)>>],
      [status |-> "ok", sections |-> <<LLMSection(0, 100), LLMSection(0, 600),
                                       LLMSection(600, 900)>>] }

RECURSIVE JoinTexts(_)
JoinTexts(texts) ==
    IF texts = <<>> THEN <<>> ELSE Head(texts) \o JoinTexts(Tail(texts))

TextsOf(segs) == [k \in DOMAIN segs |-> segs[k].text]

\* Transcript.full_text
FullText(transcript) == JoinTexts(TextsOf(transcript.segments))

\* Transcript::text_between
TextBetween(transcript, start, end) ==
    JoinTexts(TextsOf(SelectSeq(transcript.segments,
        LAMBDA seg : seg.start_seconds >= start /\ seg.end_seconds <= end)))

\* ContentChunk::new; title 0 stands for None, k for the title of section k
ContentChunk(title, content, s, e, order) ==
    [title |-> title, content |-> content, start_seconds |-> s,
     end_seconds |-> e, order |-> order]

\* SemanticChunker::build_chunks: the for loop from section k on (order is
\* k - 1, the index enumerate() gives), chunks being the list built so far.
RECURSIVE BuildChunksFrom(_, _, _, _, _)
BuildChunksFrom(sections, k, transcript, config, chunks) ==
    IF k > Len(sections) THEN chunks
    ELSE LET section == sections[k]
             content == TextBetween(transcript, section.start_seconds,
                                    section.end_seconds)
             duration == section.end_seconds - section.start_seconds
             n == Len(chunks)
         IN IF content = <<>>
            THEN BuildChunksFrom(sections, k + 1, transcript, config, chunks)
            ELSE IF duration < Ticks(config.min_duration) /\ chunks # <<>>
            THEN BuildChunksFrom(sections, k + 1, transcript, config,
                    [chunks EXCEPT ![n].content = @ \o content,
                                   ![n].end_seconds = section.end_seconds])
            ELSE BuildChunksFrom(sections, k + 1, transcript, config,
                    Append(chunks, ContentChunk(k, content, section.start_seconds,
                                                section.end_seconds, k - 1)))

BuildChunks(sections, transcript, config) ==
    BuildChunksFrom(sections, 1, transcript, config, <<>>)

\* TemporalChunker::chunk: the while loop (target_duration > 0)
RECURSIVE TemporalLoop(_, _, _, _, _)
TemporalLoop(transcript, target_duration, chunk_start, chunk_order, chunks) ==
    IF ~(chunk_start < transcript.duration_seconds) THEN chunks
    ELSE LET chunk_end == Min(chunk_start + target_duration,
                              transcript.duration_seconds)
             chunk_content == JoinTexts(TextsOf(SelectSeq(transcript.segments,
                 LAMBDA seg : seg.start_seconds < chunk_end
                              /\ seg.end_seconds > chunk_start)))
         IN IF chunk_content # <<>>
            THEN TemporalLoop(transcript, target_duration, chunk_end, chunk_order + 1,
                    Append(chunks, ContentChunk(0, chunk_content, chunk_start,
                                                chunk_end, chunk_order)))
            ELSE TemporalLoop(transcript, target_duration, chunk_end, chunk_order,
                              chunks)

ChunkOk(chunks) == [status |-> "ok", chunks |-> chunks]
ChunkErr == [status |-> "err", chunks |-> <<>>]

\* TemporalChunker::chunk
TemporalChunk(transcript, config) ==
    IF transcript.segments = <<>> THEN ChunkOk(<<>>)
    ELSE ChunkOk(TemporalLoop(transcript, Ticks(config.target_duration), 0, 0, <<>>))

\* SemanticChunker::chunk
SemanticChunk(transcript, config, llm) ==
    IF transcript.segments = <<>> THEN ChunkOk(<<>>)
    ELSE IF transcript.duration_seconds < Ticks(config.min_duration)
    THEN ChunkOk(<<ContentChunk(0, FullText(transcript), 0,
                                transcript.duration_seconds, 0)>>)
    ELSE IF llm.status = "call_failed" THEN ChunkErr
    ELSE IF llm.status = "unparseable" THEN TemporalChunk(transcript, config)
    ELSE ChunkOk(BuildChunks(llm.sections, transcript, config))

\* create_chunker_with_prompts: which chunker a strategy selects
UsesSemantic(strategy) == strategy \in {"semantic", "hybrid"}

\* chunker.chunk(&transcript, &config) with the semantic chunker
ChunkSemantic ==
    /\ UNCHANGED outsideChunker
    /\ chunk_ret = NoChunkRet
    /\ UsesSemantic(chunk_call.strategy)
    /\ chunk_ret' = SemanticChunk(chunk_call.transcript, chunk_call.config,
                                  chunk_call.llm)
    /\ UNCHANGED chunk_call

\* chunker.chunk(&transcript, &config) with the temporal chunker
ChunkTemporal ==
    /\ UNCHANGED outsideChunker
    /\ chunk_ret = NoChunkRet
    /\ ~UsesSemantic(chunk_call.strategy)
    /\ chunk_ret' = TemporalChunk(chunk_call.transcript, chunk_call.config)
    /\ UNCHANGED chunk_call

InitC ==
    /\ OInit
    /\ TIdle
    /\ chunk_call \in [strategy : ChunkingStrategies, transcript : ChunkTranscripts,
                       config : ChunkingConfigs, llm : ChunkLlmAnswers]
    /\ chunk_ret = NoChunkRet
    /\ SIdle
    /\ RIdle
    /\ AIdle
    /\ FIdle
    /\ MIdle
    /\ WIdle

NextC ==
    \/ ChunkSemantic
    \/ ChunkTemporal

SpecChunk == InitC /\ [][NextC]_vars

(***************************************************************************)
(* Claims about the chunkers (checked under SpecChunk).                    *)
(***************************************************************************)

SortedByStart(chunks) ==
    \A k \in 1..(Len(chunks) - 1) :
        chunks[k].start_seconds <= chunks[k + 1].start_seconds

DenseOrder(chunks) == \A k \in 1..Len(chunks) : chunks[k].order = k - 1

\* C12: whatever the transcript, the config (max >= min >= 0) and the
\* chunking model's sections, the returned chunks are sorted by start, their
\* order values are 0, 1, .., n-1, and there is at least one chunk when the
\* transcript's duration is at least min_duration.
C12_SortedDenseNonEmpty ==
    chunk_ret.status = "ok" =>
        /\ SortedByStart(chunk_ret.chunks)
        /\ DenseOrder(chunk_ret.chunks)
        /\ (chunk_call.transcript.duration_seconds
                >= Ticks(chunk_call.config.min_duration)
            => Len(chunk_ret.chunks) >= 1)

\* C13: a non-empty transcript shorter than min_duration gives exactly one
\* chunk, which spans [0, duration] and holds the full text, for every
\* strategy and every target_duration.
C13_ShortTranscriptOneChunk ==
    (/\ chunk_ret.status # None
     /\ chunk_call.transcript.segments # <<>>
     /\ chunk_call.transcript.duration_seconds
            < Ticks(chunk_call.config.min_duration))
    => /\ chunk_ret.status = "ok"
       /\ Len(chunk_ret.chunks) = 1
       /\ chunk_ret.chunks[1].start_seconds = 0
       /\ chunk_ret.chunks[1].end_seconds = chunk_call.transcript.duration_seconds
       /\ chunk_ret.chunks[1].content = FullText(chunk_call.transcript)

\* The sections are sorted, contiguous and cover [0, duration]
Partitions(sections, duration) ==
    /\ sections # <<>>
    /\ sections[1].start_seconds = 0
    /\ sections[Len(sections)].end_seconds = duration
    /\ \A k \in 1..Len(sections) :
            sections[k].start_seconds < sections[k].end_seconds
    /\ \A k \in 1..(Len(sections) - 1) :
            sections[k].end_seconds = sections[k + 1].start_seconds

\* text occurs in content
OccursIn(text, content) ==
    \E i \in 1..(Len(content) + 1) :
        /\ i + Len(text) - 1 <= Len(content)
        /\ SubSeq(content, i, i + Len(text) - 1) = text

\* The semantic chunker built its chunks from the model's sections
BuiltFromSections ==
    /\ chunk_ret.status = "ok"
    /\ UsesSemantic(chunk_call.strategy)
    /\ chunk_call.transcript.segments # <<>>
    /\ chunk_call.transcript.duration_seconds
            >= Ticks(chunk_call.config.min_duration)
    /\ chunk_call.llm.status = "ok"

\* C30: when the sections the chunking model returned partition
\* [0, duration], the text of every transcript segment occurs in the content
\* of at least one chunk the semantic chunker returns, also when the
\* segment straddles a section boundary.
C30_NoSegmentLost ==
    ( /\ BuiltFromSections
      /\ Partitions(chunk_call.llm.sections,
                    chunk_call.transcript.duration_seconds) )
    => \A k \in 1..Len(chunk_call.transcript.segments) :
            \E n \in 1..Len(chunk_ret.chunks) :
                OccursIn(chunk_call.transcript.segments[k].text,
                         chunk_ret.chunks[n].content)

(***************************************************************************)
(* TemporalChunker::chunk, one pass of its while loop at a time. The loop  *)
(* has no await: once entered it runs until its condition is false.       *)
(***************************************************************************)
\* target_duration values of a ChunkingConfig (seconds), 0 included
TargetDurations == {0, 30, 60, 1000}

TemporalConfigs ==
    [target_duration : TargetDurations, min_duration : {0, 40},
     max_duration : {0, 60}]

\* The entry of chunk: an empty transcript returns at once, any other one
\* sets the locals and reaches the loop
TemporalEnter(transcript, config) ==
    /\ UNCHANGED outsideTemporal
    /\ temporal_pc = "idle"
    /\ temporal_call' = [transcript |-> transcript, config |-> config]
    /\ temporal_pc' = IF transcript.segments = <<>> THEN "done" ELSE "loop"
    /\ temporal_start' = 0
    /\ temporal_order' = 0
    /\ temporal_chunks' = <<>>
    /\ window' = NoWindow

\* while chunk_start < total_duration
LoopCondition(start, total_duration) == start < total_duration

\* One pass of the loop body
TemporalPass ==
    /\ UNCHANGED outsideTemporal
    /\ temporal_pc = "loop"
    /\ LoopCondition(temporal_start, temporal_call.transcript.duration_seconds)
    /\ LET transcript == temporal_call.transcript
           target_duration == Ticks(temporal_call.config.target_duration)
           chunk_end == Min(temporal_start + target_duration,
                            transcript.duration_seconds)
           chunk_content == JoinTexts(TextsOf(SelectSeq(transcript.segments,
               LAMBDA seg : seg.start_seconds < chunk_end
                            /\ seg.end_seconds > temporal_start)))
       IN /\ window' = [start |-> temporal_start, end |-> chunk_end,
                      pass |-> 1 - window.pass]
          /\ IF chunk_content # <<>>
             THEN /\ temporal_chunks' = Append(temporal_chunks,
                        ContentChunk(0, chunk_content, temporal_start, chunk_end,
                                     temporal_order))
                  /\ temporal_order' = temporal_order + 1
             ELSE UNCHANGED <<temporal_chunks, temporal_order>>
          /\ temporal_start' = chunk_end
    /\ UNCHANGED <<temporal_call, temporal_pc>>

\* The loop condition is false: Ok(chunks)
TemporalReturn ==
    /\ UNCHANGED outsideTemporal
    /\ temporal_pc = "loop"
    /\ ~LoopCondition(temporal_start, temporal_call.transcript.duration_seconds)
    /\ temporal_pc' = "done"
    /\ UNCHANGED <<temporal_call, temporal_start, temporal_order, temporal_chunks,
                   window>>

InitW ==
    /\ OInit /\ TIdle /\ CIdle /\ SIdle /\ RIdle /\ AIdle /\ FIdle /\ MIdle
    /\ WIdle

NextW ==
    \/ \E transcript \in ChunkTranscripts, config \in TemporalConfigs :
            TemporalEnter(transcript, config)
    \/ TemporalPass
    \/ TemporalReturn

SpecTemporal == InitW /\ [][NextW]_vars

\* The loop is straight-line code: a pass that can run does run.
SpecTemporalFair == SpecTemporal /\ WF_vars(NextW)

(***************************************************************************)
(* Claims about the temporal walk (checked under SpecTemporalFair).        *)
(***************************************************************************)

\* The windows walked so far start at 0, follow one another without a gap
\* and are each at most target_duration long; after the return the last
\* one ends at the transcript's duration.
WindowsContiguous ==
    /\ window # NoWindow =>
            /\ window.end = temporal_start
            /\ window.end - window.start
                    <= Ticks(temporal_call.config.target_duration)
    /\ (temporal_pc = "done" /\ temporal_call.transcript.segments # <<>>) =>
            temporal_start = temporal_call.transcript.duration_seconds

\* C29: TemporalChunker::chunk returns for every non-empty transcript and
\* every ChunkingConfig (target_duration 0 included), and the windows it
\* walks are contiguous, start at 0, end at the duration and are each at
\* most target_duration long.
C29_TemporalTerminates ==
    /\ [](WindowsContiguous)
    /\ [][temporal_pc = "loop" /\ window' # window =>
            window'.start = (IF window = NoWindow THEN 0 ELSE window.end)]_vars
    /\ [](temporal_pc = "loop" => <>(temporal_pc = "done"))

(***************************************************************************)
(* The vector store, operation by operation (SqliteVectorStore). Every     *)
(* operation locks the Mutex<Connection> first; upsert_batch keeps it      *)
(* while it runs its inserts in one transaction. A score is the cosine     *)
(* similarity in thousandths.                                              *)
(***************************************************************************)
MaxBatch == 2
MaxLimit == 3

\* Embeddings with whole norms (and the empty vector).
Embeddings == { <<1, 0>>, <<0, 1>>, <<-1, 0>>, <<3, 4>>, <<0, 0>> }

\* Document::new with its embedding
StoredDocument(video_id, order, run, n, embedding) ==
    Document(video_id, order, run, n) @@ [embedding |-> embedding]

\* The documents callers hand to the store. The first and the last have the
\* same id and different media ids.
StoreDocuments ==
    { StoredDocument(RemoteId, 0, 1, 2, <<1, 0>>),
      StoredDocument(RemoteId, 1, 1, 2, <<-1, 0>>),
      StoredDocument(LocalMetaId, 0, 2, 1, <<3, 4>>),
      StoredDocument(LocalMetaId, 0, 1, 2, <<0, 0>>) }

StoreMediaIds == {RemoteId, LocalMetaId}

Batches == UNION {[1..n -> StoreDocuments] : n \in 0..MaxBatch}

QueryEmbeddings == { <<1, 0>>, <<0, 1>>, <<>> }

RECURSIVE Dot(_, _)
Dot(a, b) == IF a = <<>> THEN 0 ELSE Head(a) * Head(b) + Dot(Tail(a), Tail(b))

\* sqrt of a perfect square
Sqrt(n) == CHOOSE k \in 0..n : k * k = n

Norm(a) == Sqrt(Dot(a, a))

\* cosine_similarity, in thousandths
CosineSimilarity(a, b) ==
    IF Len(a) # Len(b) \/ a = <<>> THEN 0
    ELSE IF Norm(a) = 0 \/ Norm(b) = 0 THEN 0
    ELSE (Dot(a, b) * 1000) \div (Norm(a) * Norm(b))

SearchResult(document, score) == [document |-> document, score |-> score]

\* The orders in which SELECT .. FROM documents can return the rows.
ScanOrders(docs) ==
    {scan \in [1..Cardinality(docs) -> docs] : \A d \in docs : \E k \in DOMAIN scan : scan[k] = d}

\* results.sort_by(|a, b| b.score.partial_cmp(&a.score)): stable, descending
RECURSIVE InsertByScore(_, _)
InsertByScore(sorted, x) ==
    IF sorted = <<>> THEN <<x>>
    ELSE IF sorted[Len(sorted)].score >= x.score
         THEN Append(sorted, x)
         ELSE Append(InsertByScore(SubSeq(sorted, 1, Len(sorted) - 1), x),
                     sorted[Len(sorted)])

RECURSIVE SortByScoreFrom(_, _, _)
SortByScoreFrom(q, k, acc) ==
    IF k > Len(q) THEN acc ELSE SortByScoreFrom(q, k + 1, InsertByScore(acc, q[k]))

\* results.truncate(limit)
Truncate(q, limit) == SubSeq(q, 1, Min(limit, Len(q)))

\* search_with_threshold over the rows in scan order
SearchWithThreshold(scan, query_embedding, limit, min_score) ==
    LET scored == [k \in DOMAIN scan |->
                      SearchResult(scan[k],
                                   CosineSimilarity(query_embedding, scan[k].embedding))]
        kept == SelectSeq(scored, LAMBDA r : r.score >= min_score)
    IN Truncate(SortByScoreFrom(kept, 1, <<>>), limit)

\* search: search_with_threshold(query_embedding, limit, 0.0)
Search(scan, query_embedding, limit) ==
    SearchWithThreshold(scan, query_embedding, limit, 0)

IndexedVideo(video_id, chunk_count) == [video_id |-> video_id, chunk_count |-> chunk_count]

\* SELECT .. WHERE video_id = ?1 GROUP BY video_id, without the WHERE
GetVideoAnyRow(docs, video_id) ==
    IF docs = {} THEN <<>>
    ELSE <<IndexedVideo(video_id, Cardinality(docs))>>

\* get_video: the GROUP BY row of video_id as Some(..), <<>> for None
GetVideo(docs, video_id) ==
    IF GetByVideoId(docs, video_id) = {} THEN <<>>
    ELSE <<IndexedVideo(video_id, Cardinality(GetByVideoId(docs, video_id)))>>

\* list_videos: one GROUP BY row for each video_id that has a document
RECURSIVE ListGroups(_, _)
ListGroups(docs, ids) ==
    IF ids = {} THEN <<>>
    ELSE LET v == CHOOSE v \in ids : TRUE
         IN GetVideo(docs, v) \o ListGroups(docs, ids \ {v})

ListVideos(docs) == ListGroups(docs, {d.video_id : d \in docs})

StoreOk(op, arg, value) == [op |-> op, status |-> "ok", arg |-> arg, value |-> value]
\* value: for upsert_batch, the number of rows written when it failed
StoreErr(op, arg, value) == [op |-> op, status |-> "err", arg |-> arg, value |-> value]

\* A transaction whose failure leaves the rows written so far.
RollbackNothing(before, now) == now

\* Drop of an uncommitted rusqlite Transaction: ROLLBACK
Rollback(before, now) == before

\* upsert: lock, one INSERT OR REPLACE, unlock
StoreUpsert(d) ==
    /\ UNCHANGED outsideStore
    /\ conn_lock = None
    /\ \E ok \in BOOLEAN :
        IF ok
        THEN /\ documents' = InsertOrReplace(documents, d)
             /\ store_ret' = StoreOk("upsert", <<d>>, <<>>)
        ELSE /\ documents' = documents
             /\ store_ret' = StoreErr("upsert", <<d>>, <<>>)
    /\ UNCHANGED <<conn_lock, tx>>

\* upsert_batch: lock and conn.unchecked_transaction()
BatchBegin(batch) ==
    /\ UNCHANGED outsideStore
    /\ conn_lock = None
    /\ conn_lock' = "upsert_batch"
    /\ tx' = [active |-> TRUE, before |-> documents, batch |-> batch, next |-> 1]
    /\ store_ret' = NoStoreRet
    /\ UNCHANGED documents

\* upsert_batch: tx.execute(INSERT OR REPLACE ..)? for the next document
BatchInsert ==
    /\ UNCHANGED outsideStore
    /\ tx.active
    /\ tx.next <= Len(tx.batch)
    /\ \E ok \in BOOLEAN :
        IF ok
        THEN /\ documents' = InsertOrReplace(documents, tx.batch[tx.next])
             /\ tx' = [tx EXCEPT !.next = @ + 1]
             /\ UNCHANGED <<conn_lock, store_ret>>
        ELSE /\ documents' = Rollback(tx.before, documents)
             /\ tx' = NoTx
             /\ conn_lock' = None
             /\ store_ret' = StoreErr("upsert_batch", <<tx.before, tx.batch>>,
                                      <<tx.next - 1>>)

\* upsert_batch: tx.commit()?; Ok(docs.len())
BatchCommit ==
    /\ UNCHANGED outsideStore
    /\ tx.active
    /\ tx.next > Len(tx.batch)
    /\ \E ok \in BOOLEAN :
        IF ok
        THEN /\ documents' = documents
             /\ store_ret' = StoreOk("upsert_batch", <<tx.before, tx.batch>>,
                                     <<Len(tx.batch)>>)
        ELSE /\ documents' = Rollback(tx.before, documents)
             /\ store_ret' = StoreErr("upsert_batch", <<tx.before, tx.batch>>,
                                      <<tx.next - 1>>)
    /\ tx' = NoTx
    /\ conn_lock' = None

\* delete_by_video_id
StoreDelete(video_id) ==
    /\ UNCHANGED outsideStore
    /\ conn_lock = None
    /\ documents' = DeleteByVideoId(documents, video_id)
    /\ store_ret' = StoreOk("delete_by_video_id", <<video_id>>,
                            <<Cardinality(GetByVideoId(documents, video_id))>>)
    /\ UNCHANGED <<conn_lock, tx>>

\* search; arg records the query, the limit and the number of stored documents
StoreSearch(query_embedding, limit) ==
    /\ UNCHANGED outsideStore
    /\ conn_lock = None
    /\ \E scan \in ScanOrders(documents) :
        store_ret' = StoreOk("search",
                             <<query_embedding, limit, Cardinality(documents)>>,
                             Search(scan, query_embedding, limit))
    /\ UNCHANGED <<documents, conn_lock, tx>>

\* An empty store
InitS == OInit /\ TIdle /\ CIdle /\ SIdle /\ RIdle /\ AIdle /\ FIdle /\ MIdle /\ WIdle

NextS ==
    \/ \E d \in StoreDocuments : StoreUpsert(d)
    \/ \E batch \in Batches : BatchBegin(batch)
    \/ BatchInsert
    \/ BatchCommit
    \/ \E v \in StoreMediaIds : StoreDelete(v)
    \/ \E q \in QueryEmbeddings, limit \in 0..MaxLimit : StoreSearch(q, limit)

SpecStore == InitS /\ [][NextS]_vars

(***************************************************************************)
(* Claims about the vector store (checked under SpecStore).                *)
(***************************************************************************)

\* C14: an upsert_batch ends either with Ok and every document of the batch
\* stored, or with Err and the documents table exactly as it was when the
\* batch began; and from its first insert to its end no other store
\* operation returns.
C14_BatchAllOrNothing ==
    [][/\ (tx.active /\ ~tx'.active) =>
            /\ store_ret'.op = "upsert_batch"
            /\ \/ /\ store_ret'.status = "ok"
                  /\ documents' = InsertAll(tx.before, tx.batch)
               \/ /\ store_ret'.status = "err"
                  /\ documents' = tx.before
       /\ (tx.active /\ tx'.active) => store_ret' = store_ret]_vars

\* A batch failed after it had written a row that changed the table.
C14_Witness ==
    /\ store_ret.op = "upsert_batch"
    /\ store_ret.status = "err"
    /\ store_ret.value[1] >= 1
    /\ InsertOrReplace(store_ret.arg[1], store_ret.arg[2][1]) # store_ret.arg[1]
    /\ documents = store_ret.arg[1]

\* C15: a search over N stored documents returns min(limit, N) results, in
\* non-increasing score order, each a different stored document, and no
\* stored document left out scores higher than one returned.
C15_SearchTopK ==
    (store_ret.op = "search" /\ conn_lock = None) =>
        LET results == store_ret.value
            query == store_ret.arg[1]
            limit == store_ret.arg[2]
            returned == {results[k].document : k \in DOMAIN results}
        IN /\ Len(results) = Min(limit, Cardinality(documents))
           /\ \A k \in 1..(Len(results) - 1) : results[k].score >= results[k + 1].score
           /\ returned \subseteq documents
           /\ Cardinality(returned) = Len(results)
           /\ \A d \in documents \ returned : \A k \in DOMAIN results :
                  CosineSimilarity(query, d.embedding) <= results[k].score

Occurrences(videos, m) == Cardinality({k \in DOMAIN videos : videos[k].video_id = m})

\* C16: between store operations, for every media id m: is_indexed(m) iff a
\* document of m is stored iff get_media(m) is present iff m appears exactly
\* once in list_media iff get_by_media(m) is non-empty; m never appears
\* twice, and its chunk_count is the number of its stored documents.
C16_ViewsAgree ==
    conn_lock = None =>
        \A m \in StoreMediaIds :
            LET stored == {d \in documents : d.video_id = m}
            IN /\ IsVideoIndexed(documents, m) <=> (stored # {})
               /\ (GetVideo(documents, m) # <<>>) <=> (stored # {})
               /\ (Occurrences(ListVideos(documents), m) = 1) <=> (stored # {})
               /\ Occurrences(ListVideos(documents), m) <= 1
               /\ (GetByVideoId(documents, m) # {}) <=> (stored # {})
               /\ \A k \in DOMAIN ListVideos(documents) :
                      ListVideos(documents)[k].video_id = m =>
                          ListVideos(documents)[k].chunk_count = Cardinality(stored)
               /\ stored # {} =>
                      GetVideo(documents, m)[1].chunk_count = Cardinality(stored)

\* One media was deleted while documents of another stay stored.
C16_Witness ==
    /\ store_ret.op = "delete_by_video_id"
    /\ store_ret.value[1] >= 1
    /\ documents # {}
    /\ conn_lock = None

(***************************************************************************)
(* RagEngine::chat and its conversation history.                           *)
(***************************************************************************)
MaxMessages == 24

\* conversation_history.len() > 20
HistoryLimit == 20
\* conversation_history[len - 20..]
HistoryKept == 20

\* A chat message: its role and its position among the messages pushed
Message(role, n) == [role |-> role, n |-> n]

\* The system message, built anew from prompts.rag.chat_system in every call
SystemMessage == Message("system", 0)

\* The last n elements of q
LastN(q, n) == SubSeq(q, Len(q) - Min(n, Len(q)) + 1, Len(q))

\* "Trim history if too long"
TrimHistory(history) ==
    IF Len(history) > HistoryLimit THEN LastN(history, HistoryKept) ELSE history

\* chat up to the request: build the context (which can fail), push the user
\* message, send the system message followed by the history
ChatSend ==
    /\ UNCHANGED outsideRag
    /\ rag_pc = "idle"
    /\ Len(rag_log) + 2 <= MaxMessages
    /\ \E context_ok \in BOOLEAN :
        IF context_ok
        THEN /\ conversation_history' =
                    Append(conversation_history, Message("user", Len(rag_log) + 1))
             /\ rag_log' = Append(rag_log, Message("user", Len(rag_log) + 1))
             /\ rag_sent' = <<SystemMessage>> \o conversation_history'
             /\ rag_pc' = "waiting"
             /\ rag_ret' = None
        ELSE /\ rag_ret' = "err"
             /\ UNCHANGED <<conversation_history, rag_log, rag_sent, rag_pc>>

\* chat from the model's response on: Err, or push the answer, trim, Ok
ChatReceive ==
    /\ UNCHANGED outsideRag
    /\ rag_pc = "waiting"
    /\ rag_pc' = "idle"
    /\ rag_sent' = <<>>
    /\ \E ok \in BOOLEAN :
        IF ok
        THEN /\ conversation_history' =
                    TrimHistory(Append(conversation_history,
                                       Message("assistant", Len(rag_log) + 1)))
             /\ rag_log' = Append(rag_log, Message("assistant", Len(rag_log) + 1))
             /\ rag_ret' = "ok"
        ELSE /\ rag_ret' = "err"
             /\ UNCHANGED <<conversation_history, rag_log>>

\* clear_history
ClearHistory ==
    /\ UNCHANGED outsideRag
    /\ rag_pc = "idle"
    /\ conversation_history # <<>>
    /\ conversation_history' = <<>>
    /\ rag_log' = <<>>
    /\ UNCHANGED <<rag_sent, rag_pc, rag_ret>>

InitR == OInit /\ TIdle /\ CIdle /\ SIdle /\ RIdle /\ AIdle /\ FIdle /\ MIdle /\ WIdle

NextR ==
    \/ ChatSend
    \/ ChatReceive
    \/ ClearHistory

SpecRag == InitR /\ [][NextR]_vars

(***************************************************************************)
(* Claims about RagEngine (checked under SpecRag).                         *)
(***************************************************************************)

\* C17: once more than 20 messages have been pushed, the history after a
\* chat turn is the system message followed by the 19 most recent messages
\* in their order, and the request of the next turn is the system message,
\* those 19 messages and the new user message.
C17_HistoryTrimmedTo19 ==
    /\ (rag_pc = "idle" /\ Len(rag_log) > 20) =>
            <<SystemMessage>> \o conversation_history
                = <<SystemMessage>> \o LastN(rag_log, 19)
    /\ (rag_pc = "waiting" /\ Len(rag_log) - 1 > 20) =>
            rag_sent = <<SystemMessage>>
                       \o LastN(SubSeq(rag_log, 1, Len(rag_log) - 1), 19)
                       \o <<rag_log[Len(rag_log)]>>

\* The history is whole turns: user, assistant, user, assistant, ...
WholeTurns(history) ==
    /\ Len(history) % 2 = 0
    /\ \A i \in 1..Len(history) :
            history[i].role = IF i % 2 = 1 THEN "user" ELSE "assistant"

\* C28: a chat turn that returned an error has left the history as it was
\* before the turn, so between turns, after any sequence of chat and
\* clear_history calls, the history alternates user and assistant messages
\* and starts with a user message: no user message is left without its
\* answer.
C28_HistoryAlternates ==
    rag_pc = "idle" => WholeTurns(conversation_history)

(***************************************************************************)
(* Agent (agent/runner.rs, agent/tools.rs): one run of the tool loop.      *)
(* A text is the sequence of its parts, in the order format! writes them,  *)
(* so that what a text begins with can be read off its first part.  The    *)
(* chat model and the tools' store and embedder are the environment: the   *)
(* response of each model call and the outcome of each tool execution are  *)
(* chosen among the ones the code distinguishes.  The message builders     *)
(* are given every field they require and are taken not to fail.           *)
(***************************************************************************)

\* Largest max_iterations an agent is built with (with_max_iterations)
MaxIterations == 3

LyttError(kind, msg) == [kind |-> kind, msg |-> msg]

NoError == [kind |-> None, msg |-> <<>>]

\* The #[error("...")] text of each LyttError variant used here
DisplayPrefix(kind) ==
    CASE kind = "Agent" -> "Agent error: "
      [] kind = "OpenAI" -> "OpenAI API error: "
      [] kind = "VideoNotFound" -> "Media not found: "
      [] kind = "VectorStore" -> "Vector store error: "
      [] kind = "Embedding" -> "Embedding generation failed: "

Display(e) == <<DisplayPrefix(e.kind)>> \o e.msg

\* The names parse_tool_call matches
ToolNames == {"search", "get_transcript", "get_segment", "list_videos", "get_video_info"}

\* The arguments string of a tool call: not JSON, a JSON object without
\* the tool's required members, or one with all of them
NotJson == "not json"
EmptyObject == "{}"
CompleteObject == "{...}"

ChatCompletionMessageToolCall(id, name, arguments) ==
    [id |-> id, name |-> name, arguments |-> arguments]

\* The argument parse_tool_call looks for first in the arguments of a tool
RequiredArgument(name) ==
    CASE name = "search" -> "Missing 'query' argument"
      [] name = "list_videos" -> None
      [] OTHER -> "Missing 'video_id' argument"

ParseOk(name) == [ok |-> TRUE, tool |-> name, error |-> NoError]
ParseErr(e) == [ok |-> FALSE, tool |-> None, error |-> e]

parse_tool_call(name, arguments) ==
    IF arguments = NotJson
    THEN ParseErr(LyttError("Agent", <<"Invalid tool arguments: ", "expected value">>))
    ELSE IF name \notin ToolNames
    THEN ParseErr(LyttError("Agent", <<"Unknown tool: ", name>>))
    ELSE IF arguments = EmptyObject /\ RequiredArgument(name) # None
    THEN ParseErr(LyttError("Agent", <<RequiredArgument(name)>>))
    ELSE ParseOk(name)

ExecOk(output) == [ok |-> TRUE, output |-> output, error |-> NoError]
ExecErr(e) == [ok |-> FALSE, output |-> <<>>, error |-> e]

\* What ToolContext::execute may return for a tool: its output, or the
\* error of the store, of the embedder, or of a media id with no documents
ExecuteOutcomes(tool) ==
    {ExecOk(<<"output of ", tool>>),
     ExecErr(LyttError("VectorStore", <<"unavailable">>))}
    \cup (IF tool = "search"
          THEN {ExecErr(LyttError("Embedding", <<"unavailable">>))}
          ELSE {})
    \cup (IF tool \in {"get_transcript", "get_segment", "get_video_info"}
          THEN {ExecErr(LyttError("VideoNotFound", <<"video_id">>))}
          ELSE {})

ToolCallRecord(name, arguments, result) ==
    [name |-> name, arguments |-> arguments, result |-> result]

\* execute_tool_call, given what execute returns if it is called
execute_tool_call(tool_call, outcome) ==
    LET parsed == parse_tool_call(tool_call.name, tool_call.arguments)
        result == IF parsed.ok
                  THEN IF outcome.ok
                       THEN outcome.output
                       ELSE <<"Tool error: ">> \o Display(outcome.error)
                  ELSE <<"Failed to parse tool call: ">> \o Display(parsed.error)
    IN  ToolCallRecord(tool_call.name, tool_call.arguments, result)

\* The outcomes of executing a tool call: those of its tool when it parses
OutcomesOf(tool_call) ==
    LET parsed == parse_tool_call(tool_call.name, tool_call.arguments)
    IN  IF parsed.ok THEN ExecuteOutcomes(parsed.tool) ELSE {ExecOk(<<>>)}

RequestMessage(role, content, tool_calls, tool_call_id) ==
    [role |-> role, content |-> content, tool_calls |-> tool_calls,
     tool_call_id |-> tool_call_id]

AgentSystemMessage == RequestMessage("system", <<"system_prompt">>, <<>>, 0)
UserMessage == RequestMessage("user", <<"task">>, <<>>, 0)
AssistantMessage(tool_calls) == RequestMessage("assistant", <<>>, tool_calls, 0)
\* A tool message without its tool_call_id
ToolMessageUntagged(id, content) == RequestMessage("tool", content, <<>>, 0)
ToolMessage(id, content) == RequestMessage("tool", content, <<>>, id)

\* The tool-call lists a response of the model may carry
ToolCallLists ==
    {<<ChatCompletionMessageToolCall(1, "search", CompleteObject)>>,
     <<ChatCompletionMessageToolCall(1, "delete_video", EmptyObject)>>,
     <<ChatCompletionMessageToolCall(1, "get_transcript", EmptyObject),
       ChatCompletionMessageToolCall(2, "list_videos", NotJson)>>,
     <<ChatCompletionMessageToolCall(1, "get_video_info", CompleteObject),
       ChatCompletionMessageToolCall(2, "list_videos", EmptyObject)>>}

\* What client.chat().create() may give back: an error, a response without
\* choices, or a first choice whose tool_calls is None, Some([]) or Some(list)
ModelResponse(kind, has_tool_calls, tool_calls) ==
    [kind |-> kind, has_tool_calls |-> has_tool_calls, tool_calls |-> tool_calls,
     content |-> IF kind = "choice" /\ tool_calls = <<>> THEN <<"answer">> ELSE <<>>]

ModelResponses ==
    {ModelResponse("api_error", FALSE, <<>>),
     ModelResponse("no_choices", FALSE, <<>>),
     ModelResponse("choice", FALSE, <<>>),
     ModelResponse("choice", TRUE, <<>>)}
    \cup {ModelResponse("choice", TRUE, l) : l \in ToolCallLists}

AgentOk(content, tool_calls, n) ==
    [status |-> "ok", content |-> content, tool_calls |-> tool_calls,
     iterations |-> n, error |-> NoError]
AgentErr(e) ==
    [status |-> "err", content |-> <<>>, tool_calls |-> <<>>, iterations |-> 0,
     error |-> e]

build_response(content, tool_calls, n) == AgentOk(content, tool_calls, n)

\* The test at the top of the loop, on the incremented counter
ExceededLate(n, max) == n > max + 1
Exceeded(n, max) == n > max

\* The top of run's loop up to the model call: count the iteration, then
\* either give up or send the request
LoopTop ==
    /\ iterations' = iterations + 1
    /\ IF Exceeded(iterations + 1, max_iterations)
       THEN /\ agent_pc' = "done"
            /\ agent_ret' = AgentErr(LyttError("Agent",
                                <<"Agent exceeded maximum iterations (", "max_iterations", ")">>))
            /\ model_calls' = model_calls
       ELSE /\ agent_pc' = "awaiting"
            /\ model_calls' = model_calls + 1
            /\ agent_ret' = agent_ret

\* run up to its first model call
AgentRun ==
    /\ UNCHANGED outsideAgent
    /\ agent_pc = "idle"
    /\ messages' = <<AgentSystemMessage, UserMessage>>
    /\ tool_calls_made' = <<>>
    /\ LoopTop
    /\ UNCHANGED <<max_iterations, pending>>

\* run from the model's response to the first tool call, or to its return
AgentModelResponse ==
    /\ UNCHANGED outsideAgent
    /\ agent_pc = "awaiting"
    /\ \E r \in ModelResponses :
        CASE r.kind = "api_error" ->
                /\ agent_pc' = "done"
                /\ agent_ret' = AgentErr(LyttError("OpenAI", <<"Agent API error: ", "e">>))
                /\ UNCHANGED <<messages, pending>>
          [] r.kind = "no_choices" ->
                /\ agent_pc' = "done"
                /\ agent_ret' = AgentErr(LyttError("Agent", <<"No response from model">>))
                /\ UNCHANGED <<messages, pending>>
          [] r.kind = "choice" /\ (~r.has_tool_calls \/ r.tool_calls = <<>>) ->
                /\ agent_pc' = "done"
                /\ agent_ret' = build_response(r.content, tool_calls_made, iterations)
                /\ UNCHANGED <<messages, pending>>
          [] OTHER ->
                /\ agent_pc' = "tools"
                /\ messages' = Append(messages, AssistantMessage(r.tool_calls))
                /\ pending' = r.tool_calls
                /\ UNCHANGED agent_ret
    /\ UNCHANGED <<max_iterations, iterations, model_calls, tool_calls_made>>

\* One pass of the for loop over the response's tool calls; after the last
\* one, the top of the loop again
AgentExecuteToolCall ==
    /\ UNCHANGED outsideAgent
    /\ agent_pc = "tools"
    /\ \E outcome \in OutcomesOf(Head(pending)) :
        LET record == execute_tool_call(Head(pending), outcome)
        IN  /\ messages' = Append(messages, ToolMessage(Head(pending).id, record.result))
            /\ tool_calls_made' = Append(tool_calls_made, record)
    /\ pending' = Tail(pending)
    /\ IF Tail(pending) = <<>>
       THEN LoopTop
       ELSE UNCHANGED <<agent_pc, iterations, model_calls, agent_ret>>
    /\ UNCHANGED max_iterations

InitA ==
    /\ OInit /\ TIdle /\ CIdle /\ SIdle /\ RIdle /\ FIdle /\ MIdle /\ WIdle
    /\ \E max \in 0..MaxIterations : AgentBuilt(max)

NextA ==
    \/ AgentRun
    \/ AgentModelResponse
    \/ AgentExecuteToolCall

SpecAgent == InitA /\ [][NextA]_vars

\* run is one sequential task: whenever it can take its next step, it does
SpecAgentFair == SpecAgent /\ WF_vars(NextA)

(***************************************************************************)
(* Claims about Agent::run (checked under SpecAgent and SpecAgentFair).    *)
(***************************************************************************)

\* The responses that requested tool calls so far: one assistant message each
ToolRounds == Len(SelectSeq(messages, LAMBDA m : m.role = "assistant"))

ExceededError == LyttError("Agent", <<"Agent exceeded maximum iterations (", "max_iterations", ")">>)

BoundedIterations ==
    /\ model_calls <= max_iterations
    /\ agent_pc = "awaiting" => model_calls = ToolRounds + 1
    /\ agent_pc = "tools" => model_calls = ToolRounds
    /\ (agent_pc = "done" /\ ToolRounds = max_iterations) =>
            /\ agent_ret = AgentErr(ExceededError)
            /\ model_calls = max_iterations
    /\ (agent_pc = "done" /\ agent_ret = AgentErr(ExceededError)) =>
            ToolRounds = max_iterations
    /\ agent_ret.status = "ok" =>
            /\ agent_pc = "done"
            /\ ToolRounds = model_calls - 1
            /\ agent_ret.iterations = model_calls
            /\ agent_ret.tool_calls = tool_calls_made

\* C18: run sends at most max_iterations requests to the chat model and
\* always ends; when each of the first max_iterations responses requested
\* tool calls it fails with the exceeded-maximum-iterations Agent error
\* without another request, and a run that returns a response does so at the
\* first response without tool calls, its iterations being the number of
\* requests sent.
C18_BoundedAndTerminates == [](BoundedIterations) /\ <>(agent_pc = "done")

C18_Witness ==
    /\ agent_pc = "done"
    /\ max_iterations = MaxIterations
    /\ model_calls = MaxIterations
    /\ agent_ret = AgentErr(ExceededError)
    /\ Len(tool_calls_made) > MaxIterations

\* The Display texts of the errors a tool call can fail with
ErrorDisplays ==
    {DisplayPrefix(k) : k \in {"Agent", "VideoNotFound", "VectorStore", "Embedding"}}

\* A record of a tool call that failed: its name or arguments do not parse,
\* or its result carries the text of an error
ToolCallFailed(record) ==
    \/ ~parse_tool_call(record.name, record.arguments).ok
    \/ \E i \in 1..Len(record.result) : record.result[i] \in ErrorDisplays

ToolMessages == SelectSeq(messages, LAMBDA m : m.role = "tool")

\* C19: a requested tool call that fails (unknown name, unparseable or
\* missing arguments, or an error from executing the tool) never makes run
\* return an error: its text, beginning with "Tool error: ", is the content
\* of that call's tool message, and run goes on with the next call or round.
C19_ToolErrorsAreResults ==
    /\ \A i \in 1..Len(tool_calls_made) :
            /\ i <= Len(ToolMessages)
            /\ ToolMessages[i].content = tool_calls_made[i].result
            /\ ToolCallFailed(tool_calls_made[i]) =>
                    tool_calls_made[i].result[1] = "Tool error: "
    /\ agent_pc = "done" =>
            /\ pending = <<>>
            /\ agent_ret.status = "err" =>
                    agent_ret.error.msg[1] \in {"Agent exceeded maximum iterations (",
                                                "Agent API error: ",
                                                "No response from model"}

\* The messages from index i on are whole rounds (an assistant message with
\* k >= 1 calls, then k tool messages tagged with the calls' ids in their
\* order) whose calls are the records of tool_calls_made from index j on
RECURSIVE WholeRounds(_, _)
WholeRounds(i, j) ==
    IF i > Len(messages) THEN j = Len(tool_calls_made) + 1
    ELSE LET calls == messages[i].tool_calls
             k == Len(calls)
         IN  /\ messages[i].role = "assistant"
             /\ k >= 1
             /\ i + k <= Len(messages)
             /\ j + k - 1 <= Len(tool_calls_made)
             /\ \A c \in 1..k :
                    /\ messages[i + c].role = "tool"
                    /\ messages[i + c].tool_call_id = calls[c].id
                    /\ messages[i + c].content = tool_calls_made[j + c - 1].result
                    /\ tool_calls_made[j + c - 1].name = calls[c].name
                    /\ tool_calls_made[j + c - 1].arguments = calls[c].arguments
             /\ WholeRounds(i + k + 1, j + k)

\* In the middle of a round: the calls of the last assistant message are
\* the ones answered so far, in order, followed by the pending ones
PartialRound ==
    LET a == CHOOSE i \in 1..Len(messages) :
                /\ messages[i].role = "assistant"
                /\ \A n \in (i + 1)..Len(messages) : messages[n].role = "tool"
        calls == messages[a].tool_calls
        answered == Len(messages) - a
    IN  /\ pending # <<>>
        /\ answered + Len(pending) = Len(calls)
        /\ pending = SubSeq(calls, answered + 1, Len(calls))
        /\ \A c \in 1..answered :
                /\ messages[a + c].tool_call_id = calls[c].id
                /\ tool_calls_made[Len(tool_calls_made) - answered + c].name = calls[c].name

RoundsInOrder ==
    /\ agent_pc \in {"awaiting", "done"} =>
            /\ SubSeq(messages, 1, 2) = <<AgentSystemMessage, UserMessage>>
            /\ WholeRounds(3, 1)
            /\ ToolRounds = iterations - 1
    /\ agent_pc = "tools" => PartialRound

\* C24: after a round in which the model requested k >= 1 tool calls, the
\* message list of the next request is the previous one followed by one
\* assistant message with those k calls and k tool messages, one per call in
\* the requested order, each tagged with its call's id; the calls are
\* executed one at a time in that order, and tool_calls_made lists them in
\* the same order. The list and tool_calls_made only grow, one message and
\* at most one record at a time.
C24_RoundsInOrder ==
    /\ [](RoundsInOrder)
    /\ [][agent_pc # "idle" =>
            /\ Len(messages') <= Len(messages) + 1
            /\ SubSeq(messages', 1, Len(messages)) = messages
            /\ Len(tool_calls_made') <= Len(tool_calls_made) + 1
            /\ SubSeq(tool_calls_made', 1, Len(tool_calls_made)) = tool_calls_made]_vars

\* The second request after a round of two calls
C24_Witness ==
    /\ agent_pc = "awaiting"
    /\ model_calls = 2
    /\ Len(messages) = 5
    /\ Len(messages[3].tool_calls) = 2
    /\ messages[5].tool_call_id = 2
    /\ Len(tool_calls_made) = 2

(***************************************************************************)
(* One segment pipeline (TranscriptionProcessor::process_segment) with     *)
(* what it was given kept next to what it returned.                        *)
(***************************************************************************)

\* Word lists for one audio segment: none, one, two or three words
FuseWordLists ==
    WordLists \cup { <<Word(0, 10)>>, <<Word(0, 10), Word(10, 25), Word(25, 60)>> }

\* Texts, with one of sentence marks only (<<0, 0>>) and one of three sentences
FuseTexts == Texts \cup { <<0, 0>>, <<1, 0, 2>>, <<1, 1, 1>> }

FuseTextsFor(full_fusion, words) ==
    IF full_fusion THEN FuseTexts
    ELSE {t \in FuseTexts : SumSeq(t) = Len(words) /\ (Len(words) = 0 => t = <<0>>)}

FuseOk(segs) == [status |-> "ok", segments |-> segs]
FuseErr == [status |-> "err", segments |-> <<>>]

\* process_segment is called for segment i of the audio
FuseStart(i, full_fusion) ==
    /\ UNCHANGED outsideFuse
    /\ fuse_call.pc = "idle"
    /\ fuse_ret = NoFuseRet
    /\ fuse_call' = [NoFuseCall EXCEPT !.pc = "transcribing",
                                       !.full_fusion = full_fusion,
                                       !.index = i,
                                       !.time_offset = (i - 1) * Ticks(segment_duration_seconds)]
    /\ UNCHANGED fuse_ret

\* The transcriptions return: Err through `?`, or on to fuse_segment, which
\* returns at once unless it has words and text to hand to the fusion model
FuseTranscribed ==
    /\ UNCHANGED outsideFuse
    /\ fuse_call.pc = "transcribing"
    /\ \E whisper_ok \in BOOLEAN,
          text_ok \in (IF fuse_call.full_fusion THEN BOOLEAN ELSE {TRUE}) :
        \E words \in (IF whisper_ok THEN FuseWordLists ELSE {<<>>}) :
        \E text \in (IF text_ok THEN FuseTextsFor(fuse_call.full_fusion, words)
                     ELSE {<<0>>}) :
            IF CallsLlm(whisper_ok, text_ok, words, text)
            THEN /\ fuse_call' = [fuse_call EXCEPT !.pc = "fusing",
                                                   !.words = words, !.text = text]
                 /\ UNCHANGED fuse_ret
            ELSE LET result == ProcessSegment(whisper_ok, text_ok, words, text,
                                              NoLlmAnswer, fuse_call.time_offset,
                                              fuse_call.index)
                 IN /\ fuse_call' = [fuse_call EXCEPT !.pc = "idle",
                                                      !.words = words, !.text = text]
                    /\ fuse_ret' = IF result.ok THEN FuseOk(result.segments) ELSE FuseErr

\* fuse_with_llm returns and fuse_segment matches on it
FuseAnswered ==
    /\ UNCHANGED outsideFuse
    /\ fuse_call.pc = "fusing"
    /\ \E llm \in LlmAnswers :
        LET result == ProcessSegment(TRUE, TRUE, fuse_call.words, fuse_call.text,
                                     llm, fuse_call.time_offset, fuse_call.index)
        IN /\ fuse_call' = [fuse_call EXCEPT !.pc = "idle", !.llm = llm]
           /\ fuse_ret' = IF result.ok THEN FuseOk(result.segments) ELSE FuseErr

InitF == OInit /\ TIdle /\ CIdle /\ SIdle /\ RIdle /\ AIdle /\ FIdle /\ MIdle /\ WIdle

NextF ==
    \/ \E i \in 1..MaxSegments, full_fusion \in BOOLEAN : FuseStart(i, full_fusion)
    \/ FuseTranscribed
    \/ FuseAnswered

SpecFuse == InitF /\ [][NextF]_vars

(***************************************************************************)
(* Claims about one segment pipeline (checked under SpecFuse).             *)
(***************************************************************************)

\* Every start and end moved by d
ShiftTimes(segs, d) ==
    [k \in DOMAIN segs |->
        [segs[k] EXCEPT !.start_seconds = @ + d, !.end_seconds = @ + d]]

\* The fusion model was asked and gave nothing usable
FellBack ==
    /\ fuse_call.pc = "idle"
    /\ fuse_ret # NoFuseRet
    /\ fuse_call.words # <<>>
    /\ ~Blank(fuse_call.text)
    /\ (~fuse_call.llm.ok \/ fuse_call.llm.segments = <<>>)

\* C22: with a non-empty word list and text, when the fusion LLM call
\* fails, is unparseable or gives an empty list, the pipeline returns Ok
\* with what align_by_position gives for the same words and text at offset
\* 0, every start and end moved by the segment's offset.
C22_FallbackAligns ==
    FellBack =>
        /\ fuse_ret.status = "ok"
        /\ fuse_ret.segments =
                ShiftTimes(AlignByPosition(fuse_call.words, fuse_call.text, 0,
                                           fuse_call.index),
                           fuse_call.time_offset)

\* A fallback at a later segment whose last sentence was extended to the end
\* of the words
C22_Witness ==
    /\ FellBack
    /\ fuse_call.time_offset > 0
    /\ Len(fuse_call.words) = 3
    /\ fuse_call.text = <<1>>
    /\ fuse_ret.segments[1].end_seconds = fuse_call.time_offset + 60

(***************************************************************************)
(* The stdio JSON-RPC server (mcp/server.rs). One step reads a line and    *)
(* handles it up to the response written; the outcomes of                  *)
(* Orchestrator::new, of the tool and of the write are the environment's.  *)
(***************************************************************************)

\* Lines read by one run
MaxLines == 3

Line(kind, id, method, params, tool, arguments) ==
    [kind |-> kind, id |-> id, method |-> method, params |-> params,
     tool |-> tool, arguments |-> arguments]

\* A request line: a JsonRpcRequest with its id (0: no id), method and params
Request(id, method) == Line("request", id, method, None, None, None)

\* A tools/call whose params deserialize to ToolCallParams
ToolsCall(id, tool, arguments) ==
    Line("request", id, "tools/call", "valid", tool, arguments)

\* The lines a client may send as line number n: an empty line, one that is
\* no JsonRpcRequest, the four methods, an unknown method, and tools/call
\* without params, with params that are no ToolCallParams, and with each
\* of a tool that takes arguments, one that takes none and an unknown one
LinesAt(n) ==
    { Line("empty", 0, None, None, None, None),
      Line("garbage", 0, None, None, None, None),
      Request(n, "initialize"),
      Request(0, "initialized"),
      Request(n, "tools/list"),
      Request(n, "ping"),
      Request(n, "tools/call"),
      Line("request", n, "tools/call", "invalid", None, None),
      ToolsCall(n, "transcribe", None),
      ToolsCall(n, "transcribe", "missing"),
      ToolsCall(n, "transcribe", "complete"),
      ToolsCall(n, "list_media", None),
      ToolsCall(n, "erase", "complete") }

\* JsonRpcResponse::success; result names the value, is_error is that of a
\* ToolCallResult inside it
JsonRpcSuccess(id, result, is_error) ==
    [id |-> id, kind |-> "success", code |-> 0, result |-> result, is_error |-> is_error]

\* JsonRpcResponse::error
JsonRpcError(id, code) ==
    [id |-> id, kind |-> "error", code |-> code, result |-> None, is_error |-> FALSE]

ToolCallResultText(text) == [text |-> text, is_error |-> FALSE]
ToolCallResultError(message) == [text |-> message, is_error |-> TRUE]

\* The test of the tools on self.orchestrator
UninitializedNever(orch) == FALSE
Uninitialized(orch) == ~orch

\* tool_transcribe
tool_transcribe(arguments, orch, ok) ==
    IF arguments = None THEN ToolCallResultError("Missing arguments")
    ELSE IF arguments = "missing" THEN ToolCallResultError("Missing 'input' argument")
    ELSE IF Uninitialized(orch) THEN ToolCallResultError("Server not initialized")
    ELSE IF ok THEN ToolCallResultText("Successfully transcribed and indexed")
    ELSE ToolCallResultError("Transcription failed: ")

\* tool_list_media
tool_list_media(orch, ok) ==
    IF Uninitialized(orch) THEN ToolCallResultError("Server not initialized")
    ELSE IF ok THEN ToolCallResultText("Indexed media")
    ELSE ToolCallResultError("Failed to list media: ")

\* Whether the tool of a tools/call reaches the orchestrator
ReachesOrchestrator(line, orch) ==
    /\ line.kind = "request" /\ line.method = "tools/call" /\ line.params = "valid"
    /\ \/ line.tool = "list_media"
       \/ line.tool = "transcribe" /\ line.arguments = "complete"
    /\ ~Uninitialized(orch)

\* handle_tools_call
handle_tools_call(line, orch, ok) ==
    IF line.params = None \/ line.params = "invalid"
    THEN JsonRpcError(line.id, -32602)
    ELSE LET result ==
                CASE line.tool = "transcribe" -> tool_transcribe(line.arguments, orch, ok)
                  [] line.tool = "list_media" -> tool_list_media(orch, ok)
                  [] OTHER -> ToolCallResultError("Unknown tool: ")
         IN  JsonRpcSuccess(line.id, result.text, result.is_error)

\* handle_initialize, given whether Orchestrator::new succeeds
handle_initialize(line, init_ok) ==
    IF init_ok THEN JsonRpcSuccess(line.id, "InitializeResult", FALSE)
    ELSE JsonRpcError(line.id, -32000)

\* The response run writes for a non-empty line
ResponseTo(line, orch, init_ok, ok) ==
    IF line.kind = "garbage" THEN JsonRpcError(0, -32700)
    ELSE CASE line.method = "initialize" -> handle_initialize(line, init_ok)
           [] line.method = "initialized" -> JsonRpcSuccess(line.id, "{}", FALSE)
           [] line.method = "tools/list" -> JsonRpcSuccess(line.id, "ToolsListResult", FALSE)
           [] line.method = "tools/call" -> handle_tools_call(line, orch, ok)
           [] OTHER -> JsonRpcError(line.id, -32601)

\* One pass of run's loop over a line of stdin
McpLine(line) ==
    /\ UNCHANGED outsideMcp
    /\ mcp_pc = "running"
    /\ Len(mcp_lines) < MaxLines
    /\ mcp_lines' = Append(mcp_lines, line)
    /\ IF line.kind = "empty"
       THEN UNCHANGED <<orchestrator, mcp_pc, mcp_out, mcp_touched>>
       ELSE \E init_ok \in BOOLEAN, ok \in BOOLEAN, written \in BOOLEAN :
            /\ orchestrator' =
                    IF line.kind = "request" /\ line.method = "initialize" /\ init_ok
                    THEN TRUE ELSE orchestrator
            /\ mcp_touched' = IF ReachesOrchestrator(line, orchestrator)
                              THEN mcp_touched + 1 ELSE mcp_touched
            /\ IF written
               THEN /\ mcp_out' = Append(mcp_out,
                                         ResponseTo(line, orchestrator, init_ok, ok))
                    /\ UNCHANGED mcp_pc
               ELSE /\ mcp_pc' = "failed"
                    /\ UNCHANGED mcp_out

\* stdin ends: run returns Ok(())
McpEof ==
    /\ UNCHANGED outsideMcp
    /\ mcp_pc = "running"
    /\ mcp_pc' = "returned"
    /\ UNCHANGED <<orchestrator, mcp_lines, mcp_out, mcp_touched>>

\* Reading stdin fails: `let line = line?`
McpReadError ==
    /\ UNCHANGED outsideMcp
    /\ mcp_pc = "running"
    /\ mcp_pc' = "failed"
    /\ UNCHANGED <<orchestrator, mcp_lines, mcp_out, mcp_touched>>

InitM == OInit /\ TIdle /\ CIdle /\ SIdle /\ RIdle /\ AIdle /\ FIdle /\ MIdle /\ WIdle

NextM ==
    \/ \E line \in LinesAt(Len(mcp_lines) + 1) : McpLine(line)
    \/ McpEof
    \/ McpReadError

SpecMcp == InitM /\ [][NextM]_vars

(***************************************************************************)
(* Claims about the stdio JSON-RPC server (checked under SpecMcp).         *)
(***************************************************************************)

NonEmptyLines == SelectSeq(mcp_lines, LAMBDA l : l.kind # "empty")

\* Response k answers an initialize with success
InitializedAt(k) ==
    /\ NonEmptyLines[k].kind = "request"
    /\ NonEmptyLines[k].method = "initialize"
    /\ mcp_out[k].kind = "success"

\* Response k is the one the claim gives for non-empty line k
Answers(k) ==
    LET l == NonEmptyLines[k]
        r == mcp_out[k]
    IN  /\ r.id = l.id
        /\ l.kind = "garbage" => r = JsonRpcError(0, -32700)
        /\ (l.kind = "request"
                /\ l.method \notin {"initialize", "initialized", "tools/list", "tools/call"})
             => r = JsonRpcError(l.id, -32601)
        /\ (l.kind = "request" /\ l.method = "tools/call" /\ l.params # "valid")
             => r = JsonRpcError(l.id, -32602)
        /\ (l.kind = "request" /\ l.method = "initialize")
             => (r.kind = "success" \/ r = JsonRpcError(l.id, -32000))
        /\ (l.kind = "request" /\ l.method = "tools/call" /\ l.params = "valid"
                /\ ~\E j \in 1..(k - 1) : InitializedAt(j))
             => (r.kind = "success" /\ r.is_error)

OneResponsePerLine ==
    /\ Len(mcp_out) <= Len(NonEmptyLines)
    /\ \A k \in 1..Len(mcp_out) : Answers(k)
    /\ mcp_pc # "failed" =>
            /\ Len(mcp_out) = Len(NonEmptyLines)
            /\ orchestrator <=> \E k \in 1..Len(mcp_out) : InitializedAt(k)
    /\ ~orchestrator => mcp_touched = 0

\* C23: every non-empty line read gets exactly one response line, in input
\* order: -32700 for a line that is no request, -32601 for an unknown
\* method, -32602 for tools/call without valid params, -32000 for a failed
\* initialize; writing any response leaves the server in its loop; and a
\* tools/call before a successful initialize gets a tool error, with no call
\* into the orchestrator or its store.
C23_OneResponsePerLine ==
    /\ [](OneResponsePerLine)
    /\ [][Len(mcp_out') > Len(mcp_out) =>
            /\ mcp_pc' = "running"
            /\ Len(mcp_out') = Len(mcp_out) + 1]_vars

C23_Witness ==
    /\ mcp_pc = "returned"
    /\ Len(mcp_out) = MaxLines
    /\ mcp_out[1] = JsonRpcError(0, -32700)
    /\ mcp_lines[2] = ToolsCall(2, "transcribe", "complete")
    /\ mcp_out[2] = JsonRpcSuccess(2, "Server not initialized", TRUE)
    /\ mcp_out[3] = JsonRpcError(3, -32000)
    /\ mcp_touched = 0

====
